---- MODULE Spec2Model ----
(***************************************************************************)
(* A model of the Dive plugin (src/main.ts): the conversation state kept   *)
(* by DiveView (chatHistory, conversation_id, awaiting_user_response), its *)
(* persistence in the plugin's data store, and the pure functions of the   *)
(* message resolution engine (temporal resolver, note locator, message     *)
(* assembler).                                                             *)
(*                                                                         *)
(* Text is a sequence of one-character strings.  Every asynchronous        *)
(* handler is cut at its awaits: one action per run-to-completion segment. *)
(***************************************************************************)
EXTENDS Integers, Sequences, FiniteSets, TLC

VARIABLES
    store,      \* the plugin's data.json, as loadData()/saveData() see it
    settings,   \* Dive.settings, the in-memory settings object
    view,       \* the DiveView objects ever constructed, by number
    nviews,     \* how many DiveView objects were constructed
    open,       \* whether the latest DiveView is attached to a leaf
    sends,      \* the runs of the send button's click handler
    ops,        \* the other asynchronous operations (open, close, reset, save)
    nextId,     \* the next value generate_conversation_id() returns
    nresets,    \* how many explicit resets happened (history variable)
    ntoggles,   \* how many times the plugin object wrote data.json (history variable)
    arg,        \* the input of the pure function under check
    res,        \* its result
    phase       \* "conv" | "input" | "output"

vars == <<store, settings, view, nviews, open, sends, ops, nextId, nresets, ntoggles, arg, res, phase>>

convVars == <<store, settings, view, nviews, open, sends, ops, nextId, nresets, ntoggles>>

fnVars == <<arg, res, phase>>

(***************************************************************************)
(* Bounds of the model.                                                    *)
(***************************************************************************)
MaxSends == 2

MaxViews == 2

MaxResets == 1

MaxToggles == 1

MaxInFlight == 2

MaxOps == 2 * MaxViews + MaxResets

(***************************************************************************)
(* Text helpers.                                                           *)
(***************************************************************************)
UpperChars == <<"A","B","C","D","E","F","G","H","I","J","K","L","M","N","O","P","Q","R","S","T","U","V","W","X","Y","Z">>

LowerChars == <<"a","b","c","d","e","f","g","h","i","j","k","l","m","n","o","p","q","r","s","t","u","v","w","x","y","z">>

DigitChars == <<"0","1","2","3","4","5","6","7","8","9">>

Range(f) == {f[i] : i \in DOMAIN f}

\* the character ` (a string literal cannot hold it alone)
Backtick == "`'"

\* the lower-case letter of every upper-case letter
LowerOf == [c \in Range(UpperChars) |-> LowerChars[CHOOSE i \in 1..26 : UpperChars[i] = c]]

\* String.prototype.toLowerCase, one character
LowerChar(c) == IF c \in DOMAIN LowerOf THEN LowerOf[c] ELSE c

\* String.prototype.toLowerCase
toLowerCase(s) == [i \in 1..Len(s) |-> LowerChar(s[i])]

\* the regular expression class \s (the members the model's texts use)
IsSpace(c) == c \in {" ", "\n", "\t", "\r"}

\* the members of the regular expression class \d
Digits == Range(DigitChars)

\* the members of the regular expression class \w
WordChars == Range(UpperChars) \cup Range(LowerChars) \cup Range(DigitChars) \cup {"_"}

\* the regular expression class \d
IsDigit(c) == c \in Digits

\* the regular expression class \w
IsWordChar(c) == c \in WordChars

\* s.substring(i-1, i-1+n) in 1-based positions: the n characters from i
Sub(s, i, n) == SubSeq(s, i, i + n - 1)

\* whether w occurs in s at (1-based) position i
OccursAt(s, w, i) == i >= 1 /\ i + Len(w) - 1 <= Len(s) /\ Sub(s, i, Len(w)) = w

\* String.prototype.includes
includes(s, w) == \E i \in 1..(Len(s) + 1) : OccursAt(s, w, i)

\* the assertion \b at the gap before position i (between s[i-1] and s[i])
WordBoundary(s, i) ==
    LET before == i > 1 /\ i - 1 <= Len(s) /\ IsWordChar(s[i - 1])
        after  == i >= 1 /\ i <= Len(s) /\ IsWordChar(s[i])
    IN  before # after

IsPrefix(s, t) == Len(s) <= Len(t) /\ SubSeq(t, 1, Len(s)) = s

(***************************************************************************)
(* Question detection (DiveView.detect_question_in_response).              *)
(***************************************************************************)
\* a line terminator, before which $ matches under the m flag
IsLineTerminator(c) == c \in {"\n", "\r"}

\* /\?\s*$/m
EndsWithQuestionMark(s) ==
    \E i \in 1..Len(s) :
        /\ s[i] = "?"
        /\ \E j \in i..Len(s) :
            /\ \A k \in (i + 1)..j : IsSpace(s[k])
            /\ (j = Len(s) \/ IsLineTerminator(s[j + 1]))

\* /\bw\b/i for a word w that starts and ends with a word character
MatchesWord(s, w) ==
    \E i \in 1..Len(s) :
        /\ OccursAt(toLowerCase(s), w, i)
        /\ WordBoundary(s, i)
        /\ WordBoundary(s, i + Len(w))

QuestionWords ==
    { <<"w","h","a","t">>, <<"h","o","w">>, <<"w","h","y">>, <<"w","h","e","n">>,
      <<"w","h","e","r","e">>, <<"w","h","i","c","h">> }

RequestPhrases ==
    { <<"c","a","n"," ","y","o","u">>, <<"c","o","u","l","d"," ","y","o","u">>,
      <<"w","o","u","l","d"," ","y","o","u">> }

LetMeKnow == <<"l","e","t"," ","m","e"," ","k","n","o","w">>

Thoughts == <<"t","h","o","u","g","h","t","s">>

detect_question_in_response(content) ==
    \/ EndsWithQuestionMark(content)
    \/ \E w \in QuestionWords : MatchesWord(content, w)
    \/ \E w \in RequestPhrases : MatchesWord(content, w)
    \/ includes(toLowerCase(content), LetMeKnow)
    \/ MatchesWord(content, Thoughts)

(***************************************************************************)
(* Calendar dates.  A Date is the one-element sequence <<n>> of its local  *)
(* calendar day, counted in days from 1970-01-01; null is the empty        *)
(* sequence.  The time of day plays no part in what the plugin does with a *)
(* Date (getFullYear, getMonth, getDate, getDay, setDate).                 *)
(***************************************************************************)
Null == <<>>

\* the day number of the civil date y-m-d, m in 1..12 (the day arithmetic of
\* the Date constructor)
DaysFromCivil(y, m, d) ==
    LET yy  == IF m <= 2 THEN y - 1 ELSE y
        era == yy \div 400
        yoe == yy - era * 400
        mp  == IF m > 2 THEN m - 3 ELSE m + 9
        doy == (153 * mp + 2) \div 5 + d - 1
        doe == yoe * 365 + yoe \div 4 - yoe \div 100 + doy
    IN  era * 146097 + doe - 719468

\* the civil date of day number n (what getFullYear, getMonth, getDate read)
CivilFromDays(n) ==
    LET z   == n + 719468
        era == z \div 146097
        doe == z - era * 146097
        yoe == (doe - doe \div 1460 + doe \div 36524 - doe \div 146096) \div 365
        doy == doe - (365 * yoe + yoe \div 4 - yoe \div 100)
        mp  == (5 * doy + 2) \div 153
        d   == doy - (153 * mp + 2) \div 5 + 1
        m   == IF mp < 10 THEN mp + 3 ELSE mp - 9
    IN  [year |-> yoe + era * 400 + (IF m <= 2 THEN 1 ELSE 0), month |-> m, date |-> d]

\* Date.prototype.getFullYear
getFullYear(n) == CivilFromDays(n).year

\* Date.prototype.getMonth (0 is January)
getMonth(n) == CivilFromDays(n).month - 1

\* Date.prototype.getDate
getDate(n) == CivilFromDays(n).date

\* Date.prototype.getDay (0 is Sunday; 1970-01-01 was a Thursday)
getDay(n) == (n + 4) % 7

\* new Date(year, monthIndex, day) in local time: a year of 0..99 means
\* 1900 + year, a month index or a day outside its range rolls over
NewDate(year, monthIndex, day) ==
    LET y  == IF year >= 0 /\ year <= 99 THEN 1900 + year ELSE year
        ym == y + (monthIndex \div 12)
        mn == monthIndex % 12
    IN  DaysFromCivil(ym, mn + 1, 1) + day - 1

\* the value of a decimal digit
DigitValue(c) == (CHOOSE i \in 1..10 : DigitChars[i] = c) - 1

\* whether every character of s is a decimal digit
AllDigits(s) == \A i \in 1..Len(s) : IsDigit(s[i])

\* parseInt of a string of decimal digits
RECURSIVE parseInt(_)
parseInt(s) ==
    IF s = <<>> THEN 0
    ELSE parseInt(SubSeq(s, 1, Len(s) - 1)) * 10 + DigitValue(s[Len(s)])

\* String.prototype.split on a one-character separator
RECURSIVE split(_, _)
split(s, sep) ==
    IF \E i \in 1..Len(s) : s[i] = sep
    THEN LET i == CHOOSE i \in 1..Len(s) : s[i] = sep /\ \A j \in 1..(i - 1) : s[j] # sep
         IN  <<SubSeq(s, 1, i - 1)>> \o split(SubSeq(s, i + 1, Len(s)), sep)
    ELSE <<s>>

\* /^\d{4}-\d{2}-\d{2}$/
IsIsoDateText(s) ==
    /\ Len(s) = 10
    /\ s[5] = "-" /\ s[8] = "-"
    /\ \A i \in {1, 2, 3, 4, 6, 7, 9, 10} : IsDigit(s[i])

\* /^\d{1,2}sep\d{1,2}sep\d{2,4}$/ for the separator "/" or "-"
IsNumericDateText(s, sep) ==
    LET parts == split(s, sep)
    IN  /\ Len(parts) = 3
        /\ \A i \in 1..3 : AllDigits(parts[i])
        /\ Len(parts[1]) \in 1..2
        /\ Len(parts[2]) \in 1..2
        /\ Len(parts[3]) \in 2..4

\* new Date("YYYY-MM-DD"): midnight UTC of that date; the host's parser accepts
\* a month of 01..12 and a day of 01..31 (a day past the end of the month
\* rolls over) and yields an Invalid Date otherwise.  The local calendar day
\* of midnight UTC is the day before in a time zone west of UTC.
NewDateFromIso(s, west) ==
    LET y == parseInt(SubSeq(s, 1, 4))
        m == parseInt(SubSeq(s, 6, 7))
        d == parseInt(SubSeq(s, 9, 10))
    IN  IF m \in 1..12 /\ d \in 1..31
        THEN <<DaysFromCivil(y, m, 1) + d - 1 - (IF west THEN 1 ELSE 0)>>
        ELSE Null

\* the date the M, D, Y forms build from their three parts
NewDateFromParts(parts) ==
    LET year == IF Len(parts[3]) = 2 THEN 2000 + parseInt(parts[3]) ELSE parseInt(parts[3])
    IN  <<NewDate(year, parseInt(parts[1]) - 1, parseInt(parts[2]))>>

\* Dive.parse_date_string; west: the local time zone is west of UTC
parse_date_string(date_str, west) ==
    IF IsIsoDateText(date_str) THEN NewDateFromIso(date_str, west)
    ELSE IF IsNumericDateText(date_str, "/") THEN NewDateFromParts(split(date_str, "/"))
    ELSE IF IsNumericDateText(date_str, "-") THEN NewDateFromParts(split(date_str, "-"))
    ELSE Null

\* the days array of get_date_for_day_of_week (index 1 is Sunday)
days ==
    << <<"s","u","n","d","a","y">>, <<"m","o","n","d","a","y">>, <<"t","u","e","s","d","a","y">>, <<"w","e","d","n","e","s","d","a","y">>, <<"t","h","u","r","s","d","a","y">>, <<"f","r","i","d","a","y">>, <<"s","a","t","u","r","d","a","y">> >>

\* days.indexOf(name), -1 when absent
indexOf(list, x) ==
    IF \E i \in 1..Len(list) : list[i] = x
    THEN (CHOOSE i \in 1..Len(list) : list[i] = x /\ \A j \in 1..(i - 1) : list[j] # x) - 1
    ELSE -1

\* an argument that is not passed (the parameter takes its default)
Undefined == << "undefined" >>

\* a variant that keeps a difference of zero under 'last' (today is returned
\* when today is the named weekday)
get_date_for_day_of_week_keeping_today(day_name, prefix, today) ==
    LET pfx        == IF prefix = Undefined THEN <<"l","a","s","t">> ELSE prefix
        target_day == indexOf(days, toLowerCase(day_name))
        diff0      == target_day - getDay(today)
        diff       == IF pfx = <<"t","h","i","s">>
                      THEN (IF diff0 < 0 THEN diff0 + 7 ELSE diff0)
                      ELSE (IF diff0 > 0 THEN diff0 - 7 ELSE diff0)
    IN  IF target_day = -1 THEN today ELSE today + diff

\* Dive.get_date_for_day_of_week; today is the day number of new Date()
get_date_for_day_of_week(day_name, prefix, today) ==
    LET pfx        == IF prefix = Undefined THEN <<"l","a","s","t">> ELSE prefix
        today_day  == getDay(today)
        target_day == indexOf(days, toLowerCase(day_name))
        diff0      == target_day - today_day
        diff       == IF pfx = <<"t","h","i","s">>
                      THEN (IF diff0 < 0 THEN diff0 + 7 ELSE diff0)
                      ELSE (IF diff0 >= 0 THEN diff0 - 7 ELSE diff0)
    IN  IF target_day = -1 THEN today ELSE today + diff

(***************************************************************************)
(* Regular expressions.  A position is the index of the next character to  *)
(* read; a piece of a pattern maps a set of positions to the positions     *)
(* after its matches.                                                      *)
(***************************************************************************)
\* where an unanchored pattern may start
AllPositions(s) == 1..(Len(s) + 1)

\* the literal w (in lower case) at position p, under the i flag
LitAt(s, w, p) ==
    p >= 1 /\ p + Len(w) - 1 <= Len(s) /\ \A k \in 1..Len(w) : LowerChar(s[p + k - 1]) = w[k]

\* (?:w1|w2|...) from a position of P
AfterAny(s, W, P) == { x[1] + Len(x[2]) : x \in { y \in P \X W : LitAt(s, y[2], y[1]) } }

\* \s+ from a position of P
AfterSpaces(s, P) ==
    UNION { { e \in (p + 1)..(Len(s) + 1) : \A k \in p..(e - 1) : IsSpace(s[k]) } :
            p \in { x \in P : x <= Len(s) /\ IsSpace(s[x]) } }

\* alts[1]\s+alts[2]\s+...\s+alts[n] from a position of P, every alts[i] a set
\* of alternative literals
RECURSIVE AfterWords(_, _, _)
AfterWords(s, alts, P) ==
    IF P = {} THEN {}
    ELSE IF Len(alts) = 1 THEN AfterAny(s, alts[1], P)
    ELSE AfterWords(s, Tail(alts), AfterSpaces(s, AfterAny(s, alts[1], P)))

\* how many decimal digits stand at position q and after
DigitRun(s, q) ==
    CHOOSE n \in 0..Len(s) :
        /\ \A k \in q..(q + n - 1) : k <= Len(s) /\ IsDigit(s[k])
        /\ (q + n > Len(s) \/ ~IsDigit(s[q + n]))

\* String.prototype.trim
trim(s) ==
    IF \A i \in 1..Len(s) : IsSpace(s[i]) THEN <<>>
    ELSE LET a == CHOOSE i \in 1..Len(s) : ~IsSpace(s[i]) /\ \A j \in 1..(i - 1) : IsSpace(s[j])
             b == CHOOSE i \in 1..Len(s) : ~IsSpace(s[i]) /\ \A j \in (i + 1)..Len(s) : IsSpace(s[j])
         IN  SubSeq(s, a, b)

(***************************************************************************)
(* The temporal resolver (Dive.check_time_related_query).                  *)
(***************************************************************************)
\* (?:did|happened|occurred|took place)
WhatHappened == { <<"d","i","d">>, <<"h","a","p","p","e","n","e","d">>, <<"o","c","c","u","r","r","e","d">>, <<"t","o","o","k"," ","p","l","a","c","e">> }

\* (?:events|activities|notes|happenings)
Happenings == { <<"e","v","e","n","t","s">>, <<"a","c","t","i","v","i","t","i","e","s">>, <<"n","o","t","e","s">>, <<"h","a","p","p","e","n","i","n","g","s">> }

\* yesterday_pattern.test(query)
yesterday_pattern(s) ==
    LET P == AllPositions(s)
    IN  \/ AfterWords(s, << { <<"w","h","a","t">> }, WhatHappened, { <<"y","e","s","t","e","r","d","a","y">> } >>, P) # {}
        \/ AfterWords(s, << { <<"y","e","s","t","e","r","d","a","y","'","s">>, <<"y","e","s","t","e","r","d","a","y","s">> }, Happenings >>, P) # {}
        \/ AfterWords(s, << { <<"t","e","l","l">> }, { <<"m","e">> }, { <<"a","b","o","u","t">> }, { <<"y","e","s","t","e","r","d","a","y">> } >>, P) # {}
        \/ AfterWords(s, << { <<"w","h","a","t">> }, { <<"w","a","s">>, <<"d","i","d">> }, { <<"i">> },
                            { <<"d","o","i","n","g">>, <<"w","o","r","k","i","n","g"," ","o","n">>, <<"d","o">> }, { <<"y","e","s","t","e","r","d","a","y">> } >>, P) # {}

\* today_pattern.test(query)
today_pattern(s) ==
    LET P == AllPositions(s)
    IN  \/ AfterWords(s, << { <<"w","h","a","t">> }, WhatHappened, { <<"t","o","d","a","y">> } >>, P) # {}
        \/ AfterWords(s, << { <<"t","o","d","a","y","'","s">>, <<"t","o","d","a","y","s">> }, Happenings >>, P) # {}
        \/ AfterWords(s, << { <<"t","e","l","l">> }, { <<"m","e">> }, { <<"a","b","o","u","t">> }, { <<"t","o","d","a","y">> } >>, P) # {}
        \/ AfterWords(s, << { <<"w","h","a","t">> }, { <<"a","m">>, <<"w","a","s">> }, { <<"i">> },
                            { <<"d","o","i","n","g">>, <<"w","o","r","k","i","n","g"," ","o","n">> }, { <<"t","o","d","a","y">> } >>, P) # {}

\* the trigger phrase of specific_date_pattern and the \s+ after it, from p
SpecificTrigger(s, p) ==
    AfterSpaces(s,
        AfterWords(s, << { <<"w","h","a","t">> }, WhatHappened, { <<"o","n">> } >>, {p})
        \cup AfterWords(s, << { <<"t","e","l","l">> }, { <<"m","e">> }, { <<"a","b","o","u","t">> } >>, {p})
        \cup AfterWords(s, << { <<"w","h","a","t">> }, { <<"w","a","s">> }, { <<"i">> }, { <<"d","o","i","n","g">>, <<"w","o","r","k","i","n","g"," ","o","n">> }, { <<"o","n">> } >>, {p}))

\* \d{4}-\d{2}-\d{2} at q: the length of the match, 0 when there is none
IsoLiteralLen(s, q) ==
    IF /\ q + 9 <= Len(s)
       /\ s[q + 4] = "-" /\ s[q + 7] = "-"
       /\ \A k \in {0, 1, 2, 3, 5, 6, 8, 9} : IsDigit(s[q + k])
    THEN 10 ELSE 0

\* \d{1,2}sep\d{1,2}(?:sep\d{2,4})? at q, every quantifier greedy: the length
\* of the match, 0 when there is none
NumericLiteralLen(s, q, sep) ==
    LET a  == DigitRun(s, q)
        b0 == DigitRun(s, q + a + 1)
        b  == IF b0 > 2 THEN 2 ELSE b0
        r  == q + a + 1 + b
        c0 == DigitRun(s, r + 1)
        c  == IF c0 > 4 THEN 4 ELSE c0
    IN  IF a \in 1..2 /\ q + a <= Len(s) /\ s[q + a] = sep /\ b >= 1
        THEN (IF r <= Len(s) /\ s[r] = sep /\ c >= 2 THEN a + 1 + b + 1 + c ELSE a + 1 + b)
        ELSE 0

\* the capturing group of specific_date_pattern at q, alternatives in order
DateLiteralLen(s, q) ==
    IF IsoLiteralLen(s, q) > 0 THEN IsoLiteralLen(s, q)
    ELSE IF NumericLiteralLen(s, q, "/") > 0 THEN NumericLiteralLen(s, q, "/")
    ELSE NumericLiteralLen(s, q, "-")

\* query.match(specific_date_pattern): <<match[1]>> of the leftmost match, or null
specific_date_match(s) ==
    LET lit(p) == { q \in SpecificTrigger(s, p) : DateLiteralLen(s, q) > 0 }
        starts == { p \in AllPositions(s) : lit(p) # {} }
    IN  IF starts = {} THEN Null
        ELSE LET p == CHOOSE x \in starts : \A y \in starts : x <= y
                 q == CHOOSE x \in lit(p) : \A y \in lit(p) : y <= x
             IN  << Sub(s, q, DateLiteralLen(s, q)) >>

\* \s+((?:last|this|on)\s+)?(monday|...|sunday) from position u: the captures
\* [match1, match2] in a one-element sequence, or null; the optional group is
\* tried before it is skipped
DayOfWeekAt(s, u) ==
    LET E == AfterSpaces(s, {u})
        withPrefix == { x \in E \X AllPositions(s) :
                          /\ x[2] \in AfterSpaces(s, AfterAny(s, { <<"l","a","s","t">>, <<"t","h","i","s">>, <<"o","n">> }, {x[1]}))
                          /\ \E d \in Range(days) : LitAt(s, d, x[2]) }
        bare == { e \in E : \E d \in Range(days) : LitAt(s, d, e) }
        name(f) == Sub(s, f, Len(CHOOSE d \in Range(days) : LitAt(s, d, f)))
    IN  IF withPrefix # {}
        THEN LET x == CHOOSE y \in withPrefix : TRUE
             IN  << [match1 |-> Sub(s, x[1], x[2] - x[1]), match2 |-> name(x[2])] >>
        ELSE IF bare # {}
        THEN LET e == CHOOSE y \in bare : TRUE
             IN  << [match1 |-> Undefined, match2 |-> name(e)] >>
        ELSE Null

\* the optional trigger phrase of day_of_week_pattern from p
DayOfWeekTrigger(s, p) ==
    AfterWords(s, << { <<"w","h","a","t">> }, WhatHappened, { <<"o","n">>, <<"l","a","s","t">>, <<"t","h","i","s">> } >>, {p})

\* day_of_week_pattern from position p: with the trigger phrase if the rest
\* matches after it, without it otherwise
DayOfWeekFrom(s, p) ==
    LET after == { t \in DayOfWeekTrigger(s, p) : DayOfWeekAt(s, t) # Null }
    IN  IF after # {} THEN DayOfWeekAt(s, CHOOSE t \in after : TRUE)
        ELSE DayOfWeekAt(s, p)

\* query.match(day_of_week_pattern): the captures of the leftmost match, or null
day_of_week_match(s) ==
    LET starts == { p \in AllPositions(s) : DayOfWeekFrom(s, p) # Null }
    IN  IF starts = {} THEN Null
        ELSE DayOfWeekFrom(s, CHOOSE x \in starts : \A y \in starts : x <= y)

\* String(n) for a number n >= 0
RECURSIVE ToText(_)
ToText(n) ==
    IF n < 10 THEN << DigitChars[n + 1] >>
    ELSE ToText(n \div 10) \o << DigitChars[(n % 10) + 1] >>

\* String(n).padStart(2, '0')
padStart2(n) == IF n < 10 THEN <<"0">> \o ToText(n) ELSE ToText(n)

\* the formats array of find_daily_note for the Date of day number n
formats_of(y, m, d) ==
    << y \o <<"-">> \o m \o <<"-">> \o d,
       m \o <<"-">> \o d \o <<"-">> \o y,
       <<"d","a","i","l","y","/">> \o y \o <<"-">> \o m \o <<"-">> \o d,
       <<"j","o","u","r","n","a","l","/">> \o y \o <<"-">> \o m \o <<"-">> \o d >>

\* the formats array for the Date of day number n: its year, month and day
\* as find_daily_note formats them
formats(n) ==
    formats_of(ToText(getFullYear(n)), padStart2(getMonth(n) + 1), padStart2(getDate(n)))

\* file_map.get(key): the index in files of the last file whose lower-cased
\* basename is key (a later set() replaces an earlier one), 0 when absent
file_map_get(files, key) ==
    LET hits == { i \in 1..Len(files) : toLowerCase(files[i].basename) = key }
    IN  IF hits = {} THEN 0 ELSE CHOOSE i \in hits : \A j \in hits : j <= i

\* the loop of find_daily_note from format number k on
RECURSIVE find_daily_note_from(_, _, _)
find_daily_note_from(fmts, files, k) ==
    IF k > Len(fmts) THEN Null
    ELSE LET i == file_map_get(files, toLowerCase(fmts[k]))
         IN  IF i # 0 /\ files[i].readable
             THEN << [name |-> files[i].basename, content |-> files[i].content] >>
             ELSE find_daily_note_from(fmts, files, k + 1)

\* Dive.find_daily_note: the note in a one-element sequence, or null; files is
\* what getMarkdownFiles() returns, readable tells whether vault.read resolves
find_daily_note(n, files) == find_daily_note_from(formats(n), files, 1)

(***************************************************************************)
(* The earlier find_daily_note kept in src/unnamed/part_000: nine formats, *)
(* matching by containment, a search by folder, a flexible search and a    *)
(* made-up note when nothing is found.                                     *)
(***************************************************************************)
\* toLocaleDateString('en-US', { weekday: 'long' }) by getDay() + 1
weekday_long ==
    << <<"S","u","n","d","a","y">>, <<"M","o","n","d","a","y">>, <<"T","u","e","s","d","a","y">>, <<"W","e","d","n","e","s","d","a","y">>, <<"T","h","u","r","s","d","a","y">>, <<"F","r","i","d","a","y">>, <<"S","a","t","u","r","d","a","y">> >>

\* toLocaleDateString('en-US', { month: 'long' }) by getMonth() + 1
month_long ==
    << <<"J","a","n","u","a","r","y">>, <<"F","e","b","r","u","a","r","y">>, <<"M","a","r","c","h">>, <<"A","p","r","i","l">>, <<"M","a","y">>, <<"J","u","n","e">>, <<"J","u","l","y">>, <<"A","u","g","u","s","t">>, <<"S","e","p","t","e","m","b","e","r">>, <<"O","c","t","o","b","e","r">>, <<"N","o","v","e","m","b","e","r">>, <<"D","e","c","e","m","b","e","r">> >>

\* date.toISOString().split('T')[0] of a Date whose UTC calendar day is day
\* number u (years 0 to 9999)
toISODate(u) ==
    LET y == ToText(getFullYear(u))
    IN  [i \in 1..(4 - Len(y)) |-> "0"] \o y \o <<"-">> \o padStart2(getMonth(u) + 1) \o <<"-">> \o padStart2(getDate(u))

\* the formats array of the earlier find_daily_note for the Date of local
\* day number n
formats_part_000(n) ==
    LET y == ToText(getFullYear(n))
        m == padStart2(getMonth(n) + 1)
        d == padStart2(getDate(n))
    IN  << y \o <<"-">> \o m \o <<"-">> \o d,
           m \o <<"-">> \o d \o <<"-">> \o y,
           m \o d \o y,
           y \o m \o d,
           m \o <<"/">> \o d \o <<"/">> \o y,
           toLowerCase(weekday_long[getDay(n) + 1]),
           <<"d","a","i","l","y","/">> \o y \o <<"-">> \o m \o <<"-">> \o d,
           <<"j","o","u","r","n","a","l","/">> \o y \o <<"-">> \o m \o <<"-">> \o d,
           toLowerCase(month_long[getMonth(n) + 1]) \o <<" ">> \o ToText(getDate(n)) \o <<","," ">> \o y >>

\* the test of both filters on basenames: equal to the format or containing
\* it, letter case aside
basename_matches(file, format) ==
    \/ toLowerCase(file.basename) = toLowerCase(format)
    \/ includes(toLowerCase(file.basename), toLowerCase(format))

\* String.prototype.startsWith
startsWith(s, w) == OccursAt(s, w, 1)

\* files.filter(...) of the first loop for one format
matching_files(files, format) ==
    LET Matches(file) == basename_matches(file, format)
    IN  SelectSeq(files, Matches)

\* files.filter(...) of the folder loop for one folder and one format
matching_files_in(files, folder, format) ==
    LET Matches(file) == /\ startsWith(toLowerCase(file.path), toLowerCase(folder) \o <<"/">>)
                         /\ basename_matches(file, format)
    IN  SelectSeq(files, Matches)

\* the first loop from format number k on: the first match of the first
\* format whose first match can be read, null when the loop ends
RECURSIVE by_format(_, _, _)
by_format(fmts, files, k) ==
    IF k > Len(fmts) THEN Null
    ELSE LET found == matching_files(files, fmts[k])
         IN  IF Len(found) > 0 /\ found[1].readable
             THEN << [name |-> found[1].basename, content |-> found[1].content] >>
             ELSE by_format(fmts, files, k + 1)

\* the folders searched
daily_notes_folders == << <<"d","a","i","l","y"," ","n","o","t","e","s">>, <<"d","a","i","l","i","e","s">>, <<"j","o","u","r","n","a","l","s">>, <<"d","i","a","r","y">> >>

\* the folder loop from folder number j and format number k on
RECURSIVE by_folder(_, _, _, _)
by_folder(fmts, files, j, k) ==
    IF j > Len(daily_notes_folders) THEN Null
    ELSE IF k > Len(fmts) THEN by_folder(fmts, files, j + 1, 1)
    ELSE LET found == matching_files_in(files, daily_notes_folders[j], fmts[k])
         IN  IF Len(found) > 0 /\ found[1].readable
             THEN << [name |-> found[1].basename, content |-> found[1].content] >>
             ELSE by_folder(fmts, files, j, k + 1)

\* files.filter(...) of the flexible search; n is the local day number of
\* the Date and u its UTC day number
potential_matches(n, u, files) ==
    LET date_str  == toISODate(u)
        month_str == padStart2(getMonth(n) + 1)
        day_str   == padStart2(getDate(n))
        month_day == month_str \o <<"-">> \o day_str
        day_month == day_str \o <<"-">> \o month_str
        Matches(file) ==
            \/ includes(file.basename, date_str)
            \/ includes(file.basename, month_day)
            \/ includes(file.basename, day_month)
            \/ (includes(file.basename, day_str) /\ includes(file.basename, month_str))
            \/ (includes(toLowerCase(file.basename), <<"d","a","i","l","y">>) /\ includes(file.basename, day_str))
            \/ (includes(toLowerCase(file.basename), <<"j","o","u","r","n","a","l">>) /\ includes(file.basename, day_str))
    IN  SelectSeq(files, Matches)

\* the flexible search: its first match when that can be read
flexible_search(n, u, files) ==
    LET found == potential_matches(n, u, files)
    IN  IF Len(found) > 0 /\ found[1].readable
        THEN << [name |-> found[1].basename, content |-> found[1].content] >>
        ELSE Null

\* the note made up when every search has failed
mock_daily_note(u) ==
    << [name |-> toISODate(u) \o <<" ","(","M","o","c","k"," ","D","a","i","l","y"," ","N","o","t","e",")">>,
        content |-> <<"#"," ","D","a","i","l","y"," ","N","o","t","e"," ","f","o","r"," ">> \o toISODate(u) \o <<"\n","\n","T","h","i","s"," ","i","s"," ","a"," ","m","o","c","k"," ","d","a","i","l","y"," ","n","o","t","e"," ","c","r","e","a","t","e","d"," ","f","o","r"," ","t","e","s","t","i","n","g"," ","p","u","r","p","o","s","e","s"," ","b","e","c","a","u","s","e"," ","n","o"," ","a","c","t","u","a","l"," ","d","a","i","l","y"," ","n","o","t","e"," ","w","a","s"," ","f","o","u","n","d"," ","f","o","r"," ","t","h","i","s"," ","d","a","t","e",".","\n","\n","#","#"," ","A","c","t","i","v","i","t","i","e","s","\n","-"," ","W","o","r","k","e","d"," ","o","n"," ","t","h","e"," ","O","b","s","i","d","i","a","n"," ","p","l","u","g","i","n"," ","p","r","o","j","e","c","t","\n","-"," ","H","a","d"," ","a"," ","m","e","e","t","i","n","g"," ","w","i","t","h"," ","t","h","e"," ","t","e","a","m","\n","-"," ","W","e","n","t"," ","f","o","r"," ","a"," ","w","a","l","k"," ","i","n"," ","t","h","e"," ","e","v","e","n","i","n","g">>] >>

\* Dive.find_daily_note of src/unnamed/part_000: n is the local day number
\* of the Date, u its UTC day number, files what getMarkdownFiles() returns
find_daily_note_part_000(n, u, files) ==
    IF by_format(formats_part_000(n), files, 1) # Null
    THEN by_format(formats_part_000(n), files, 1)
    ELSE IF by_folder(formats_part_000(n), files, 1, 1) # Null
    THEN by_folder(formats_part_000(n), files, 1, 1)
    ELSE IF flexible_search(n, u, files) # Null
    THEN flexible_search(n, u, files)
    ELSE mock_daily_note(u)

\* a variant of the resolver in which a literal that does not parse falls
\* through to the day-of-week category
target_date_falling_through(query, today, west) ==
    IF yesterday_pattern(query) THEN << today - 1 >>
    ELSE IF today_pattern(query) THEN << today >>
    ELSE IF specific_date_match(query) # Null
            /\ parse_date_string(specific_date_match(query)[1], west) # Null
    THEN parse_date_string(specific_date_match(query)[1], west)
    ELSE IF day_of_week_match(query) # Null
    THEN LET match == day_of_week_match(query)[1]
             prefix == IF match.match1 # Undefined THEN toLowerCase(trim(match.match1)) ELSE <<"l","a","s","t">>
         IN  << get_date_for_day_of_week(match.match2, prefix, today) >>
    ELSE Null

\* a variant of the resolver that tries the today category first
target_date_today_first(query, today, west) ==
    IF today_pattern(query) THEN << today >>
    ELSE IF yesterday_pattern(query) THEN << today - 1 >>
    ELSE IF specific_date_match(query) # Null
    THEN parse_date_string(specific_date_match(query)[1], west)
    ELSE IF day_of_week_match(query) # Null
    THEN LET match == day_of_week_match(query)[1]
             prefix == IF match.match1 # Undefined THEN toLowerCase(trim(match.match1)) ELSE <<"l","a","s","t">>
         IN  << get_date_for_day_of_week(match.match2, prefix, today) >>
    ELSE Null

\* the if / else-if chain of check_time_related_query over what its four
\* patterns yield on the query: yesterday and is_today are the outcomes of
\* test(), specific and day_of_week the outcomes of match()
target_date_from(yesterday, is_today, specific, day_of_week, today, west) ==
    IF yesterday THEN << today - 1 >>
    ELSE IF is_today THEN << today >>
    ELSE IF specific # Null
    THEN parse_date_string(specific[1], west)
    ELSE IF day_of_week # Null
    THEN << get_date_for_day_of_week(
                day_of_week[1].match2,
                IF day_of_week[1].match1 # Undefined
                THEN toLowerCase(trim(day_of_week[1].match1)) ELSE <<"l","a","s","t">>,
                today) >>
    ELSE Null

\* target_date at the end of the if / else-if chain of check_time_related_query;
\* today is the day number of new Date()
target_date(query, today, west) ==
    target_date_from(yesterday_pattern(query), today_pattern(query),
                     specific_date_match(query), day_of_week_match(query), today, west)

\* the result array check_time_related_query builds for target_date: the
\* daily note of that date if there is a date and a note for it
result_for(date, files) ==
    IF date # Null THEN find_daily_note(date[1], files) ELSE <<>>

\* Dive.check_time_related_query: the result array (no or one daily note)
check_time_related_query(query, today, west, files) ==
    result_for(target_date(query, today, west), files)

(***************************************************************************)
(* The file reference extractor and stripper of DiveView.                  *)
(***************************************************************************)
Min(S) == CHOOSE x \in S : \A y \in S : x <= y

\* the characters a simple reference stops at: [\s@`.,;!?]
IsReferenceStop(c) == IsSpace(c) \/ c \in {"@", Backtick, ".", ",", ";", "!", "?"}

\* /@`([^`]+)`/ at position i: the position after the match, 0 when none
BacktickEnd(s, i) ==
    IF /\ i + 3 <= Len(s)
       /\ s[i] = "@" /\ s[i + 1] = Backtick /\ s[i + 2] # Backtick
       /\ \E j \in (i + 3)..Len(s) : s[j] = Backtick
    THEN Min({ j \in (i + 3)..Len(s) : s[j] = Backtick }) + 1
    ELSE 0

\* /@([^\s@`.,;!?]+)/ at position i: the position after the match, 0 when none
SimpleEnd(s, i) ==
    IF i + 1 <= Len(s) /\ s[i] = "@" /\ ~IsReferenceStop(s[i + 1])
    THEN Min({ e \in (i + 2)..(Len(s) + 1) : e > Len(s) \/ IsReferenceStop(s[e]) })
    ELSE 0

\* the successive matches <<start, end>> of backtick_regex.exec from position from
RECURSIVE backtick_matches(_, _)
backtick_matches(s, from) ==
    LET starts == { i \in from..Len(s) : BacktickEnd(s, i) > 0 }
    IN  IF starts = {} THEN <<>>
        ELSE << << Min(starts), BacktickEnd(s, Min(starts)) >> >>
             \o backtick_matches(s, BacktickEnd(s, Min(starts)))

\* the successive matches <<start, end>> of simple_regex.exec from position from
RECURSIVE simple_matches(_, _)
simple_matches(s, from) ==
    LET starts == { i \in from..Len(s) : SimpleEnd(s, i) > 0 }
    IN  IF starts = {} THEN <<>>
        ELSE << << Min(starts), SimpleEnd(s, Min(starts)) >> >>
             \o simple_matches(s, SimpleEnd(s, Min(starts)))

\* Set.prototype.add for every element of xs in turn (a Set keeps the order
\* of first insertion)
RECURSIVE addAll(_, _)
addAll(set, xs) ==
    IF xs = <<>> THEN set
    ELSE addAll(IF Head(xs) \in Range(set) THEN set ELSE Append(set, Head(xs)), Tail(xs))

\* DiveView.extractFileReferences
extractFileReferences(text) ==
    LET bt == backtick_matches(text, 1)
        sm == simple_matches(text, 1)
        filenames == [k \in 1..Len(bt) |-> trim(SubSeq(text, bt[k][1] + 2, bt[k][2] - 2))]
        simple == [k \in 1..Len(sm) |-> SubSeq(text, sm[k][1] + 1, sm[k][2] - 1)]
    IN  addAll(addAll(<<>>, SelectSeq(filenames, LAMBDA f : f # <<>>)), simple)

\* the characters of s outside the spans <<start, end>> (end exclusive)
RemoveSpans(s, spans) ==
    LET gone(i) == \E k \in 1..Len(spans) : spans[k][1] <= i /\ i < spans[k][2]
        F[i \in 0..Len(s)] ==
            IF i = 0 THEN <<>>
            ELSE IF gone(i) THEN F[i - 1] ELSE Append(F[i - 1], s[i])
    IN  F[Len(s)]

\* new RegExp(`@${escaped_ref}(?=\\s|$|[.,;!?])`) at position i
RefAt(s, ref, i) ==
    /\ OccursAt(s, <<"@">> \o ref, i)
    /\ LET e == i + 1 + Len(ref)
       IN  e > Len(s) \/ IsSpace(s[e]) \/ s[e] \in {".", ",", ";", "!", "?"}

\* the successive matches of that expression under the g flag
RECURSIVE ref_matches(_, _, _)
ref_matches(s, ref, from) ==
    LET starts == { i \in from..Len(s) : RefAt(s, ref, i) }
    IN  IF starts = {} THEN <<>>
        ELSE << << Min(starts), Min(starts) + 1 + Len(ref) >> >>
             \o ref_matches(s, ref, Min(starts) + 1 + Len(ref))

\* a stable sort of records by their field key, largest first
RECURSIVE StableSortDesc(_)
StableSortDesc(items) ==
    IF items = <<>> THEN <<>>
    ELSE LET sorted == StableSortDesc(SubSeq(items, 1, Len(items) - 1))
             x == items[Len(items)]
             n == Cardinality({ i \in 1..Len(sorted) : sorted[i].key >= x.key })
         IN  SubSeq(sorted, 1, n) \o <<x>> \o SubSeq(sorted, n + 1, Len(sorted))

\* the loop of removeFileReferences over the sorted references from number k on
RECURSIVE remove_refs_from(_, _, _, _)
remove_refs_from(text, cleaned, refs, k) ==
    IF k > Len(refs) THEN cleaned
    ELSE IF includes(text, <<"@", Backtick>> \o refs[k] \o <<Backtick>>)
         THEN remove_refs_from(text, cleaned, refs, k + 1)
         ELSE remove_refs_from(text, RemoveSpans(cleaned, ref_matches(cleaned, refs[k], 1)), refs, k + 1)

\* s.replace(/\s+/g, ' ')
CollapseSpaces(s) ==
    LET F[i \in 0..Len(s)] ==
            IF i = 0 THEN <<>>
            ELSE IF ~IsSpace(s[i]) THEN Append(F[i - 1], s[i])
            ELSE IF i > 1 /\ IsSpace(s[i - 1]) THEN F[i - 1]
            ELSE Append(F[i - 1], " ")
    IN  F[Len(s)]

\* DiveView.removeFileReferences
removeFileReferences(text) ==
    LET cleaned_text == RemoveSpans(text, backtick_matches(text, 1))
        extracted_refs == extractFileReferences(text)
        sorted == StableSortDesc([k \in 1..Len(extracted_refs) |->
                                     [key |-> Len(extracted_refs[k]), val |-> extracted_refs[k]]])
        refs == [k \in 1..Len(sorted) |-> sorted[k].val]
    IN  trim(CollapseSpaces(remove_refs_from(text, cleaned_text, refs, 1)))

(***************************************************************************)
(* The context tracker's keyword summary and the message assembler         *)
(* (DiveView.analyze_conversation_context, DiveView.prepareMessage).       *)
(***************************************************************************)
\* the elements of a set of numbers in ascending order
RECURSIVE Ascending(_)
Ascending(S) == IF S = {} THEN <<>> ELSE << Min(S) >> \o Ascending(S \ { Min(S) })

\* s.split(/\s+/) without the empty strings it yields at the ends of s (the
\* length filter drops them)
SplitWords(s) ==
    LET starts == Ascending({ i \in 1..Len(s) : ~IsSpace(s[i]) /\ (i = 1 \/ IsSpace(s[i - 1])) })
        endOf(i) == Min({ e \in i..Len(s) : e = Len(s) \/ IsSpace(s[e + 1]) })
    IN  [k \in 1..Len(starts) |-> SubSeq(s, starts[k], endOf(starts[k]))]

StopWords ==
    { <<"w","h","a","t">>, <<"w","h","e","n">>, <<"w","h","e","r","e">>, <<"w","h","i","c","h">>, <<"t","h","i","s">>, <<"t","h","a","t">>, <<"t","h","e","r","e">>, <<"t","h","e","i","r">>, <<"a","b","o","u","t">> }

\* whether a property key is an array index: Object.entries lists such keys
\* first, in ascending numeric order (the model's texts have no word of ten
\* or more digits)
IsArrayIndex(w) == AllDigits(w) /\ Len(w) >= 1 /\ Len(w) <= 9 /\ (w[1] # "0" \/ Len(w) = 1)

\* Array.prototype.join
RECURSIVE join(_, _)
join(list, sep) ==
    IF list = <<>> THEN <<>>
    ELSE IF Len(list) = 1 THEN list[1]
    ELSE list[1] \o sep \o join(Tail(list), sep)

\* word_counts is a plain object, so word_counts[word] reads Object.prototype
\* for a word that has no own property yet.  Two lower-case words of more than
\* three word characters name a property there.
ProtoWord == <<"_","_","p","r","o","t","o","_","_">>

ConstructorWord == <<"c","o","n","s","t","r","u","c","t","o","r">>

\* whether word becomes an own property of word_counts: the assignment to
\* __proto__ runs the inherited setter, which ignores a string
IsOwnKey(w) == w # ProtoWord

\* whether the count of the word is a number: that of constructor is the
\* string (Object + 1), with a 1 appended for each further occurrence
HasNumericCount(w) == w # ConstructorWord

\* the comparator (a, b) => b[1] - a[1] as Array.prototype.sort applies it:
\* a result of NaN counts as 0
CompareCounts(x, y) == IF x.numeric /\ y.numeric THEN y.key - x.key ELSE 0

\* the length of the run that starts the array a of two or more entries:
\* strictly descending if the second entry sorts before the first, else
\* non-descending
RunLength(a, descending) ==
    CHOOSE r \in 2..Len(a) :
        /\ \A k \in 3..r : (CompareCounts(a[k], a[k - 1]) < 0) = descending
        /\ (r = Len(a) \/ (CompareCounts(a[r + 1], a[r]) < 0) # descending)

Reversed(a) == [k \in 1..Len(a) |-> a[Len(a) + 1 - k]]

\* the binary search of the insertion sort: where pivot goes in a[left+1..right]
RECURSIVE InsertionPoint(_, _, _, _)
InsertionPoint(a, pivot, left, right) ==
    IF left >= right THEN left
    ELSE LET mid == left + ((right - left) \div 2)
         IN  IF CompareCounts(pivot, a[mid + 1]) < 0
             THEN InsertionPoint(a, pivot, left, mid)
             ELSE InsertionPoint(a, pivot, mid + 1, right)

\* the binary insertion sort of a from entry number start on, a[1..start-1]
\* being in order
RECURSIVE BinaryInsertionSort(_, _)
BinaryInsertionSort(a, start) ==
    IF start > Len(a) THEN a
    ELSE LET at == InsertionPoint(a, a[start], 0, start - 1)
         IN  BinaryInsertionSort(SubSeq(a, 1, at) \o << a[start] >> \o SubSeq(a, at + 1, start - 1)
                                 \o SubSeq(a, start + 1, Len(a)),
                                 start + 1)

\* Array.prototype.sort with that comparator on fewer than 64 entries: the
\* first run is found (and reversed if descending), the rest is inserted
sort_entries(a) ==
    IF Len(a) < 2 THEN a
    ELSE LET descending == CompareCounts(a[2], a[1]) < 0
             r == RunLength(a, descending)
         IN  BinaryInsertionSort((IF descending THEN Reversed(SubSeq(a, 1, r)) ELSE SubSeq(a, 1, r))
                                 \o SubSeq(a, r + 1, Len(a)),
                                 r + 1)

\* DiveView.analyze_conversation_context: the new value of conversation_context
analyze_conversation_context(message) ==
    LET stripped == SelectSeq(toLowerCase(message), LAMBDA c : IsWordChar(c) \/ IsSpace(c))
        words == SelectSeq(SplitWords(stripped), LAMBDA w : Len(w) > 3 /\ w \notin StopWords)
        keys == SelectSeq(addAll(<<>>, words), IsOwnKey)
        indexKeys == SelectSeq(keys, IsArrayIndex)
        ordered == StableSortDesc([k \in 1..Len(indexKeys) |->
                                      [key |-> 0 - parseInt(indexKeys[k]), val |-> indexKeys[k]]])
        entries == [k \in 1..Len(ordered) |-> ordered[k].val]
                   \o SelectSeq(keys, LAMBDA w : ~IsArrayIndex(w))
        word_counts == [k \in 1..Len(entries) |->
                           [key |-> Cardinality({ i \in 1..Len(words) : words[i] = entries[k] }),
                            numeric |-> HasNumericCount(entries[k]),
                            val |-> entries[k]]]
        sorted == sort_entries(word_counts)
        top_words == [k \in 1..(IF Len(sorted) > 5 THEN 5 ELSE Len(sorted)) |-> sorted[k].val]
    IN  join(top_words, <<","," ">>)

\* Array.prototype.find over getMarkdownFiles(): the index of the first file
\* whose basename equals fileName up to letter case, 0 when there is none
find_exact(files, fileName) ==
    LET hits == { i \in 1..Len(files) : toLowerCase(files[i].basename) = toLowerCase(fileName) }
    IN  IF hits = {} THEN 0 ELSE Min(hits)

\* the index of the first file whose basename contains fileName or is
\* contained in it, up to letter case, 0 when there is none
find_fuzzy(files, fileName) ==
    LET hits == { i \in 1..Len(files) :
                    \/ includes(toLowerCase(files[i].basename), toLowerCase(fileName))
                    \/ includes(toLowerCase(fileName), toLowerCase(files[i].basename)) }
    IN  IF hits = {} THEN 0 ELSE Min(hits)

\* an entry of includedFiles; kind is a history field: which step pushed it
Included(file, kind) == [name |-> file.basename, content |-> file.content, kind |-> kind]

\* a variant of the loop body that takes the first document that matches
\* either way
included_for_reference_first_match(fileName, files) ==
    LET j == find_fuzzy(files, fileName)
    IN  IF j # 0 THEN (IF files[j].readable THEN << Included(files[j], "explicit") >> ELSE <<>>)
        ELSE <<>>

\* what the loop body of prepareMessage pushes for one reference
included_for_reference(fileName, files) ==
    LET i == find_exact(files, fileName)
        j == find_fuzzy(files, fileName)
    IN  IF i # 0 THEN (IF files[i].readable THEN << Included(files[i], "explicit") >> ELSE <<>>)
        ELSE IF j # 0 THEN (IF files[j].readable THEN << Included(files[j], "explicit") >> ELSE <<>>)
        ELSE <<>>

\* a variant of the loop that gives up at the first reference that attaches
\* nothing
RECURSIVE explicit_files_aborting(_, _, _)
explicit_files_aborting(fileReferences, files, k) ==
    IF k > Len(fileReferences) THEN <<>>
    ELSE IF included_for_reference(fileReferences[k], files) = <<>> THEN <<>>
    ELSE included_for_reference(fileReferences[k], files) \o explicit_files_aborting(fileReferences, files, k + 1)

\* the loop of prepareMessage over fileReferences from number k on
RECURSIVE explicit_files(_, _, _)
explicit_files(fileReferences, files, k) ==
    IF k > Len(fileReferences) THEN <<>>
    ELSE included_for_reference(fileReferences[k], files) \o explicit_files(fileReferences, files, k + 1)

\* whether some reference equals name up to letter case
is_referenced(fileReferences, name) ==
    \E k \in 1..Len(fileReferences) : toLowerCase(fileReferences[k]) = toLowerCase(name)

\* the time-related files that prepareMessage pushes
temporal_files(time_related_files, fileReferences) ==
    LET kept == SelectSeq(time_related_files, LAMBDA f : ~is_referenced(fileReferences, f.name))
    IN  [k \in 1..Len(kept) |-> [name |-> kept[k].name, content |-> kept[k].content, kind |-> "temporal"]]

\* what prepareMessage pushes for the active file; currentFile is its index in
\* files, 0 when no file is active
current_files(fileReferences, files, includeCurrentFile, currentFile) ==
    IF /\ includeCurrentFile
       /\ currentFile # 0
       /\ files[currentFile].readable
       /\ files[currentFile].content # <<>>
       /\ ~is_referenced(fileReferences, files[currentFile].basename)
    THEN << Included(files[currentFile], "current") >>
    ELSE <<>>

\* includedFiles of prepareMessage when its three steps are done
includedFiles(userInput, today, west, files, includeCurrentFile, currentFile) ==
    LET fileReferences == extractFileReferences(userInput)
    IN  temporal_files(check_time_related_query(userInput, today, west, files), fileReferences)
        \o explicit_files(fileReferences, files, 1)
        \o current_files(fileReferences, files, includeCurrentFile, currentFile)

\* the positions of name where /\d{4}-\d{2}-\d{2}/ matches
IsoDatePositions(name) == { q \in 1..Len(name) : IsoLiteralLen(name, q) > 0 }

\* /\b(mon|tue|wed|thu|fri|sat|sun)/ on the lower-cased name
HasWeekdayAbbreviation(name) ==
    \E i \in 1..Len(name) :
        /\ WordBoundary(toLowerCase(name), i)
        /\ \E w \in { <<"m","o","n">>, <<"t","u","e">>, <<"w","e","d">>, <<"t","h","u">>, <<"f","r","i">>, <<"s","a","t">>, <<"s","u","n">> } : OccursAt(toLowerCase(name), w, i)

\* is_daily_note of prepareMessage
is_daily_note(name) ==
    \/ IsoDatePositions(name) # {}
    \/ includes(toLowerCase(name), <<"d","a","i","l","y">>)
    \/ includes(toLowerCase(name), <<"j","o","u","r","n","a","l">>)
    \/ HasWeekdayAbbreviation(name)

\* the block prepareMessage adds to filesContent for one included file
file_block(file) ==
    IF is_daily_note(file.name)
    THEN LET date_str == IF IsoDatePositions(file.name) # {}
                         THEN Sub(file.name, Min(IsoDatePositions(file.name)), 10)
                         ELSE file.name
         IN  <<"Y","o","u","r"," ","d","a","i","l","y"," ","n","o","t","e"," ","f","o","r"," ">> \o date_str
             \o <<"."," ","T","h","i","s"," ","c","o","n","t","a","i","n","s"," ","y","o","u","r"," ","a","c","t","i","v","i","t","i","e","s"," ","a","n","d"," ","n","o","t","e","s"," ","f","o","r"," ","t","h","i","s"," ","d","a","y",":","\n",Backtick,Backtick,Backtick,"\n">>
             \o file.content \o <<"\n",Backtick,Backtick,Backtick,"\n","\n">>
    ELSE <<"F","i","l","e",":"," ">> \o file.name \o <<"\n",Backtick,Backtick,Backtick,"\n">> \o file.content \o <<"\n",Backtick,Backtick,Backtick,"\n","\n">>

RECURSIVE filesContent(_)
filesContent(included) ==
    IF included = <<>> THEN <<>> ELSE file_block(Head(included)) \o filesContent(Tail(included))

\* what prepareMessage returns and leaves behind, from includedFiles and the
\* conversation_context that analyze_conversation_context has set.
\* displayText is the record {text, fileNames}; the plain string the code
\* returns when nothing is attached is the record with no file names.
message_data(userInput, included, conversation_context, hasHistory) ==
    LET withFiles == IF included # <<>>
                     THEN filesContent(included) \o <<"\n","\n","U","s","e","r"," ","q","u","e","s","t","i","o","n",":","\n">> \o userInput
                          \o <<"\n","\n","P","l","e","a","s","e"," ","a","n","s","w","e","r"," ","b","a","s","e","d"," ","o","n"," ","t","h","e"," ","c","o","n","t","e","n","t"," ","o","f"," ","t","h","e"," ","p","r","o","v","i","d","e","d"," ","f","i","l","e","s",".">>
                     ELSE userInput
    IN  [ displayText |->
              IF included # <<>>
              THEN [text |-> removeFileReferences(userInput),
                    fileNames |-> [k \in 1..Len(included) |-> included[k].name]]
              ELSE [text |-> userInput, fileNames |-> <<>>],
          apiText |->
              IF conversation_context # <<>> /\ hasHistory
              THEN withFiles \o <<"\n","\n","C","o","n","v","e","r","s","a","t","i","o","n"," ","c","o","n","t","e","x","t",":"," ">> \o conversation_context
              ELSE withFiles,
          includedFiles |-> included,
          conversation_context |-> conversation_context ]

\* DiveView.prepareMessage.  hasHistory: chatHistory.length > 0.
prepareMessage(userInput, today, west, files, includeCurrentFile, currentFile, hasHistory) ==
    message_data(userInput,
                 includedFiles(userInput, today, west, files, includeCurrentFile, currentFile),
                 analyze_conversation_context(userInput),
                 hasHistory)

(***************************************************************************)
(* The conversation: records and inputs.                                   *)
(***************************************************************************)
\* what the user types into the input field (no mention, no date expression,
\* no word longer than three characters)
UserTexts == { <<"h","i">> }

\* what the model answers
Replies == { <<"o","k">>, <<"o","k","?">> }

\* a turn of DiveView.chatHistory; sid is a history field: the send that made it
Turn(role, content, sid) == [role |-> role, content |-> content, sid |-> sid]

\* data.json of a fresh install: loadData() returns null
EmptyStore ==
    [ has_settings |-> FALSE, perplexityApiKey |-> "", includeCurrentFile |-> FALSE,
      has_chat |-> FALSE, chat_history |-> <<>>, conversation_id |-> 0,
      awaiting_user_response |-> FALSE ]

\* data.json as an earlier session left it: one exchange, conversation id 1
EarlierStore ==
    [ has_settings |-> TRUE, perplexityApiKey |-> "key", includeCurrentFile |-> FALSE,
      has_chat |-> TRUE,
      chat_history |-> << Turn("user", <<"h","i">>, 0), Turn("assistant", <<"o","k">>, 0) >>,
      conversation_id |-> 1, awaiting_user_response |-> FALSE ]

\* the part of data.json that save_chat_history keeps from what it loaded
SettingsPart(data) ==
    [ has_settings |-> data.has_settings, perplexityApiKey |-> data.perplexityApiKey,
      includeCurrentFile |-> data.includeCurrentFile ]

NoSnapshot == SettingsPart(EmptyStore)

\* a DiveView as its field initialisers leave it
NewView ==
    [ chatHistory |-> <<>>, conversation_id |-> 0, awaiting_user_response |-> FALSE,
      conversation_context |-> <<>>, ready |-> FALSE, loaded |-> FALSE, epoch |-> 0 ]

\* content: the local variable content of sendToPerplexity, <<>> (the empty
\* string) until the response has been read
NoSend ==
    [ pc |-> "unused", view |-> 0, text |-> <<>>, epoch |-> 0, existing |-> NoSnapshot,
      content |-> <<>> ]

NoOp == [ kind |-> "none", pc |-> "unused", view |-> 0, existing |-> NoSnapshot, data |-> EmptyStore ]

Views == 1..MaxViews

SendIds == 1..MaxSends

OpIds == 1..MaxOps

\* the slot a newly started operation takes
FreeOp == CHOOSE o \in OpIds : ops[o].pc = "unused" /\ \A p \in OpIds : p < o => ops[p].pc # "unused"

NumSends == Cardinality({s \in SendIds : sends[s].pc # "unused"})

\* the asynchronous operations that have started and not finished
InFlight ==
    Cardinality({s \in SendIds : sends[s].pc \in {"prepare", "fetch", "save_write"}})
    + Cardinality({o \in OpIds : ops[o].pc # "unused"})

\* the model starts an operation only while fewer than MaxInFlight are pending
MayStart == InFlight < MaxInFlight

\* Dive.loadSettings: Object.assign({}, DEFAULT_SETTINGS, await this.loadData())
loadSettings(data) ==
    [ perplexityApiKey |-> IF data.has_settings THEN data.perplexityApiKey ELSE "",
      includeCurrentFile |-> IF data.has_settings THEN data.includeCurrentFile ELSE FALSE,
      has_chat |-> data.has_chat, chat_history |-> data.chat_history,
      conversation_id |-> data.conversation_id,
      awaiting_user_response |-> data.awaiting_user_response ]

\* what Dive.saveSettings writes: saveData(this.settings) replaces data.json
saveSettings(st) ==
    [ has_settings |-> TRUE, perplexityApiKey |-> st.perplexityApiKey,
      includeCurrentFile |-> st.includeCurrentFile,
      has_chat |-> st.has_chat, chat_history |-> st.chat_history,
      conversation_id |-> st.conversation_id,
      awaiting_user_response |-> st.awaiting_user_response ]

\* what DiveView.save_chat_history writes: {...existing_data, chat_history, ...}
updated_data(existing, v) ==
    [ has_settings |-> existing.has_settings, perplexityApiKey |-> existing.perplexityApiKey,
      includeCurrentFile |-> existing.includeCurrentFile,
      has_chat |-> TRUE, chat_history |-> v.chatHistory,
      conversation_id |-> v.conversation_id,
      awaiting_user_response |-> v.awaiting_user_response ]

\* the vault and the clock of the conversation: no markdown file, no active
\* file, a time zone east of UTC, Thursday 2024-02-29
ConvFiles == <<>>

ConvToday == DaysFromCivil(2024, 2, 29)

\* data.json after the API key was entered in an earlier session, before any chat
KeyStore == [EmptyStore EXCEPT !.has_settings = TRUE, !.perplexityApiKey = "key"]

InitStores == { EmptyStore, KeyStore, EarlierStore }

Init ==
    /\ store \in InitStores
    /\ settings = loadSettings(store)
    /\ view = [v \in Views |-> NewView]
    /\ nviews = 0
    /\ open = FALSE
    /\ sends = [s \in SendIds |-> NoSend]
    /\ ops = [o \in OpIds |-> NoOp]
    /\ nextId = 2
    /\ nresets = 0
    /\ ntoggles = 0
    /\ arg = <<>>
    /\ res = <<>>
    /\ phase = "conv"

(***************************************************************************)
(* The conversation: operations.                                           *)
(*                                                                         *)
(* loadData() and saveData(x) are served in the order they are called: a   *)
(* read returns data.json as it is when loadData() is called, a write      *)
(* replaces it when saveData(x) is called.                                 *)
(***************************************************************************)
\* the DiveView the workspace shows (the latest constructed)
Cur == nviews

\* activateView when the workspace has no leaf of the view type: new
\* DiveView(leaf, plugin) and onOpen up to its first await (load_chat_history);
\* the save of an earlier view's onClose may still be pending
OpenView ==
    /\ MayStart
    /\ ~open
    /\ nviews < MaxViews
    /\ nviews' = nviews + 1
    /\ open' = TRUE
    /\ view' = [view EXCEPT ![nviews + 1] = NewView]
    /\ ops' = [ops EXCEPT ![FreeOp] =
                  [kind |-> "open", pc |-> "open_load", view |-> nviews + 1,
                   existing |-> NoSnapshot, data |-> store]]
    /\ UNCHANGED <<store, settings, sends, nextId, nresets, ntoggles, fnVars>>

\* DiveView.load_chat_history on view object v, data being what loadData() returned
load_chat_history(v, data, fresh) ==
    IF data.has_chat
    THEN [v EXCEPT !.chatHistory = data.chat_history,
                   !.conversation_id = IF data.conversation_id # 0 THEN data.conversation_id ELSE fresh,
                   !.awaiting_user_response = data.awaiting_user_response]
    ELSE v

\* load_chat_history resolves and onOpen builds the controls (send button, toggle)
LoadDone(o) ==
    /\ ops[o].pc = "open_load"
    /\ LET v == ops[o].view
           data == ops[o].data
           loaded == load_chat_history(view[v], data, nextId)
       IN  /\ view' = [view EXCEPT ![v] = [loaded EXCEPT !.ready = TRUE, !.loaded = TRUE]]
           /\ nextId' = IF data.has_chat /\ data.conversation_id = 0 THEN nextId + 1 ELSE nextId
    /\ ops' = [ops EXCEPT ![o] = NoOp]
    /\ UNCHANGED <<store, settings, nviews, open, sends, nresets, ntoggles, fnVars>>

\* the send button's click handler up to its first await (prepareMessage);
\* focusAndSend and the Enter key click the same button
Click(text) ==
    /\ MayStart
    /\ open
    /\ Cur > 0
    /\ view[Cur].ready
    /\ NumSends < MaxSends
    /\ LET V == view[Cur]
       IN  /\ view' = [view EXCEPT ![Cur] =
                         IF V.awaiting_user_response
                         THEN [V EXCEPT !.awaiting_user_response = FALSE]
                         ELSE IF V.conversation_id = 0
                              THEN [V EXCEPT !.conversation_id = nextId]
                              ELSE V]
           /\ nextId' = IF ~V.awaiting_user_response /\ V.conversation_id = 0
                        THEN nextId + 1 ELSE nextId
    /\ sends' = [sends EXCEPT ![NumSends + 1] =
                    [pc |-> "prepare", view |-> Cur, text |-> text, epoch |-> nresets,
                     existing |-> NoSnapshot, content |-> <<>>]]
    /\ UNCHANGED <<store, settings, nviews, open, ops, nresets, ntoggles, fnVars>>

\* Prepared with the user turn pushed before the API key is looked at
Prepared_pushing_first(s) ==
    /\ sends[s].pc = "prepare"
    /\ \E messageData \in { prepareMessage(sends[s].text, ConvToday, FALSE, ConvFiles,
                                             settings.includeCurrentFile, 0,
                                             view[sends[s].view].chatHistory # <<>>) } :
       LET v == sends[s].view
           V == view[v]
       IN  /\ view' = [view EXCEPT ![v] =
                         [V EXCEPT !.conversation_context = messageData.conversation_context,
                                   !.conversation_id = IF @ = 0 THEN nextId ELSE @,
                                   !.chatHistory = Append(@, Turn("user", messageData.apiText, s))]]
           /\ nextId' = IF V.conversation_id = 0 THEN nextId + 1 ELSE nextId
           /\ sends' = [sends EXCEPT ![s].pc = IF settings.perplexityApiKey = ""
                                               THEN "done" ELSE "fetch"]
    /\ UNCHANGED <<store, settings, nviews, open, ops, nresets, ntoggles, fnVars>>

\* prepareMessage resolves; sendToPerplexity runs up to its fetch
Prepared(s) ==
    /\ sends[s].pc = "prepare"
    /\ \E messageData \in { prepareMessage(sends[s].text, ConvToday, FALSE, ConvFiles,
                                             settings.includeCurrentFile, 0,
                                             view[sends[s].view].chatHistory # <<>>) } :
       LET v == sends[s].view
           V == view[v]
       IN  IF settings.perplexityApiKey = ""
           THEN /\ sends' = [sends EXCEPT ![s].pc = "done"]
                /\ view' = [view EXCEPT ![v].conversation_context = messageData.conversation_context]
                /\ UNCHANGED nextId
           ELSE /\ view' = [view EXCEPT ![v] =
                              [V EXCEPT !.conversation_context = messageData.conversation_context,
                                        !.conversation_id = IF @ = 0 THEN nextId ELSE @,
                                        !.chatHistory = Append(@, Turn("user", messageData.apiText, s))]]
                /\ nextId' = IF V.conversation_id = 0 THEN nextId + 1 ELSE nextId
                /\ sends' = [sends EXCEPT ![s].pc = "fetch"]
    /\ UNCHANGED <<store, settings, nviews, open, ops, nresets, ntoggles, fnVars>>

\* the fetch resolves with an OK response whose content is reply; the
\* assistant turn is pushed and save_chat_history calls loadData()
Reply(s, reply) ==
    /\ sends[s].pc = "fetch"
    /\ LET v == sends[s].view
       IN  view' = [view EXCEPT ![v] =
                       [@ EXCEPT !.awaiting_user_response = detect_question_in_response(reply),
                                 !.chatHistory = Append(@, Turn("assistant", reply, s))]]
    /\ sends' = [sends EXCEPT ![s].pc = "save_write", ![s].existing = SettingsPart(store),
                             ![s].content = reply]
    /\ UNCHANGED <<store, settings, nviews, open, ops, nextId, nresets, ntoggles, fnVars>>

\* the fetch rejects or the response is not OK: the catch block
Fail(s) ==
    /\ sends[s].pc = "fetch"
    /\ sends' = [sends EXCEPT ![s].pc = "failed"]
    /\ UNCHANGED <<store, settings, view, nviews, open, ops, nextId, nresets, ntoggles, fnVars>>

\* save_chat_history of a send: loadData() has resolved, saveData(updated_data)
SendSaveWrite(s) ==
    /\ sends[s].pc = "save_write"
    /\ store' = updated_data(sends[s].existing, view[sends[s].view])
    /\ sends' = [sends EXCEPT ![s].pc = "done", ![s].existing = NoSnapshot]
    /\ UNCHANGED <<settings, view, nviews, open, ops, nextId, nresets, ntoggles, fnVars>>

\* the assignments reset_chat and the New Conversation handler both make
cleared(v, fresh, epoch) ==
    [v EXCEPT !.chatHistory = <<>>, !.conversation_id = fresh,
              !.awaiting_user_response = FALSE, !.epoch = epoch]

\* the New Conversation button: reset, then save_chat_history() without await
NewConversation ==
    /\ MayStart
    /\ open
    /\ Cur > 0
    /\ view[Cur].ready
    /\ nresets < MaxResets
    /\ view' = [view EXCEPT ![Cur] = cleared(@, nextId, nresets + 1)]
    /\ nextId' = nextId + 1
    /\ nresets' = nresets + 1
    /\ ops' = [ops EXCEPT ![FreeOp] =
                  [kind |-> "new", pc |-> "save_write", view |-> Cur,
                   existing |-> SettingsPart(store), data |-> EmptyStore]]
    /\ UNCHANGED <<store, settings, nviews, open, sends, ntoggles, fnVars>>

\* DiveView.reset_chat (Clear History, the clear-chat-history command,
\* Dive.reset_chat) up to its first await; the command acts on the open view
\* whether or not its onOpen has returned
ResetChat ==
    /\ MayStart
    /\ open
    /\ Cur > 0
    /\ nresets < MaxResets
    /\ view' = [view EXCEPT ![Cur] = cleared(@, nextId, nresets + 1)]
    /\ nextId' = nextId + 1
    /\ nresets' = nresets + 1
    /\ ops' = [ops EXCEPT ![FreeOp] =
                  [kind |-> "reset", pc |-> "save_write", view |-> Cur,
                   existing |-> SettingsPart(store), data |-> EmptyStore]]
    /\ UNCHANGED <<store, settings, nviews, open, sends, ntoggles, fnVars>>

\* DiveView.onClose: the view is detached and saves, whatever is pending on it
CloseView ==
    /\ MayStart
    /\ open
    /\ open' = FALSE
    /\ ops' = [ops EXCEPT ![FreeOp] =
                  [kind |-> "close", pc |-> "save_write", view |-> Cur,
                   existing |-> SettingsPart(store), data |-> EmptyStore]]
    /\ UNCHANGED <<store, settings, view, nviews, sends, nextId, nresets, ntoggles, fnVars>>

\* save_chat_history of a reset, a new conversation or a close: loadData() has
\* resolved, saveData(updated_data) is called; a reset goes on when saveData
\* has resolved
OpSaveWrite(o) ==
    /\ ops[o].pc = "save_write"
    /\ store' = updated_data(ops[o].existing, view[ops[o].view])
    /\ ops' = IF ops[o].kind = "reset"
              THEN [ops EXCEPT ![o].pc = "reopen", ![o].existing = NoSnapshot]
              ELSE [ops EXCEPT ![o] = NoOp]
    /\ UNCHANGED <<settings, view, nviews, open, sends, nextId, nresets, ntoggles, fnVars>>

\* the saveData of reset_chat has resolved: onOpen empties the container and
\* load_chat_history calls loadData()
ResetReopen(o) ==
    /\ ops[o].pc = "reopen"
    /\ ops' = [ops EXCEPT ![o].pc = "open_load", ![o].data = store]
    /\ view' = [view EXCEPT ![ops[o].view].ready = FALSE]
    /\ UNCHANGED <<store, settings, nviews, open, sends, nextId, nresets, ntoggles, fnVars>>

\* the include-file toggle (view button or settings tab): flip, saveSettings
ToggleIncludeFile ==
    /\ ntoggles < MaxToggles
    /\ ntoggles' = ntoggles + 1
    /\ settings' = [settings EXCEPT !.includeCurrentFile = ~@]
    /\ store' = saveSettings(settings')
    /\ UNCHANGED <<view, nviews, open, sends, ops, nextId, nresets, fnVars>>

\* the settings tab changes the prompt, the model or the conversational mode
\* (settings the model does not hold) and calls saveSettings
ChangeSetting ==
    /\ ntoggles < MaxToggles
    /\ ntoggles' = ntoggles + 1
    /\ store' = saveSettings(settings)
    /\ UNCHANGED <<settings, view, nviews, open, sends, ops, nextId, nresets, fnVars>>

\* what the API key field of the settings tab can hold
ApiKeys == { "", "key", "k2" }

\* save_api_key: the onChange of the API key field
SaveApiKey(value) ==
    /\ ntoggles < MaxToggles
    /\ value # settings.perplexityApiKey
    /\ ntoggles' = ntoggles + 1
    /\ settings' = [settings EXCEPT !.perplexityApiKey = value]
    /\ store' = saveSettings(settings')
    /\ UNCHANGED <<view, nviews, open, sends, ops, nextId, nresets, fnVars>>

\* Dive.clear_saved_data: saveData({})
ClearSavedData ==
    /\ ntoggles < MaxToggles
    /\ ntoggles' = ntoggles + 1
    /\ store' = EmptyStore
    /\ UNCHANGED <<settings, view, nviews, open, sends, ops, nextId, nresets, fnVars>>

Next ==
    \/ OpenView
    \/ \E o \in OpIds : LoadDone(o)
    \/ \E t \in UserTexts : Click(t)
    \/ \E s \in SendIds : Prepared(s)
    \/ \E s \in SendIds, r \in Replies : Reply(s, r)
    \/ \E s \in SendIds : Fail(s)
    \/ \E s \in SendIds : SendSaveWrite(s)
    \/ NewConversation
    \/ ResetChat
    \/ CloseView
    \/ \E o \in OpIds : OpSaveWrite(o)
    \/ \E o \in OpIds : ResetReopen(o)
    \/ ToggleIncludeFile
    \/ ChangeSetting
    \/ \E value \in ApiKeys : SaveApiKey(value)
    \/ ClearSavedData

Spec == Init /\ [][Next]_vars

(***************************************************************************)
(* The conversation as the user sees it.                                   *)
(***************************************************************************)
\* the latest DiveView whose onOpen has loaded the persisted state (0: none yet)
Conv ==
    IF \E v \in Views : view[v].loaded
    THEN CHOOSE v \in Views : view[v].loaded /\ \A w \in Views : view[w].loaded => w <= v
    ELSE 0

\* ConversationState.turns
Turns == IF Conv = 0 THEN <<>> ELSE view[Conv].chatHistory

\* ConversationState.conversation_id (0 is the empty string)
ConvId == IF Conv = 0 THEN 0 ELSE view[Conv].conversation_id

\* ConversationState.awaiting_response
Awaiting == IF Conv = 0 THEN FALSE ELSE view[Conv].awaiting_user_response

\* a step of an explicit reset: the assignments of reset_chat or of the New
\* Conversation handler, or the reload that ends reset_chat
ResetAssignStep == nresets' # nresets

ResetReloadStep ==
    \E o \in OpIds : ops[o].kind = "reset" /\ ops[o].pc = "open_load" /\ ops'[o].pc = "unused"

ResetStep == ResetAssignStep \/ ResetReloadStep

\* the number of explicit resets before send sid was started (0: an earlier session)
EpochOf(sid) == IF sid = 0 THEN 0 ELSE sends[sid].epoch

\* the sends of view v whose message resolution or model call is pending
PendingSends(v) == {s \in SendIds : sends[s].view = v /\ sends[s].pc \in {"prepare", "fetch"}}

(***************************************************************************)
(* The pure functions are checked one call at a time: the input is drawn   *)
(* in the initial state, one action applies the function, and the          *)
(* conversation stays as constructed.                                      *)
(***************************************************************************)
ConvIdle ==
    /\ store = EmptyStore
    /\ settings = loadSettings(store)
    /\ view = [v \in Views |-> NewView]
    /\ nviews = 0
    /\ open = FALSE
    /\ sends = [s \in SendIds |-> NoSend]
    /\ ops = [o \in OpIds |-> NoOp]
    /\ nextId = 2
    /\ nresets = 0
    /\ ntoggles = 0

\* the reference days of the model: Monday 2024-02-26 to Sunday 2024-03-03
Todays == { DaysFromCivil(2024, 2, 26) + k : k \in 0..6 }

MonthTexts == { <<"1">>, <<"2">>, <<"0","2">>, <<"4">>, <<"1","2">>, <<"1","3">>, <<"0">> }

DayTexts == { <<"5">>, <<"2","9">>, <<"3","0">>, <<"3","1">>, <<"3","2">>, <<"0">> }

YearTexts == { <<"2","0","2","4">>, <<"2","0","2","3">>, <<"2","4">>, <<"0","2","4">> }

IsoMonthTexts == { <<"0","1">>, <<"0","2">>, <<"0","4">>, <<"1","2">>, <<"1","3">>, <<"0","0">> }

IsoDayTexts == { <<"0","5">>, <<"2","9">>, <<"3","0">>, <<"3","1">>, <<"3","2">>, <<"0","0">> }

\* the literals handed to parse_date_string
DateTexts ==
    { m \o <<sep>> \o d \o <<sep>> \o y : m \in MonthTexts, d \in DayTexts, y \in YearTexts, sep \in {"/", "-"} }
    \cup { y \o <<"-">> \o m \o <<"-">> \o d : y \in { <<"2","0","2","4">>, <<"2","0","2","3">> }, m \in IsoMonthTexts, d \in IsoDayTexts }
    \cup { m \o <<sep>> \o d : m \in MonthTexts, d \in DayTexts, sep \in {"/", "-"} }
    \cup { <<"2","0","2","4","-","1","-","5">>, <<"1","/","5","/","2","0","2","4","/","1">>, <<>> }

InitDate ==
    /\ ConvIdle
    /\ phase = "input"
    /\ arg \in [str : DateTexts, west : BOOLEAN]
    /\ res = Null

\* one call of parse_date_string
ParseDate ==
    /\ phase = "input"
    /\ phase' = "output"
    /\ res' = parse_date_string(arg.str, arg.west)
    /\ UNCHANGED <<arg, convVars>>

NextDate == ParseDate

SpecDate == InitDate /\ [][NextDate]_vars

DayNameTexts == Range(days) \cup { <<"M","o","n","d","a","y">>, <<"F","R","I","D","A","Y">>, <<"f","u","n","d","a","y">> }

PrefixTexts == { <<"t","h","i","s">>, <<"l","a","s","t">>, <<"o","n">>, Undefined }

InitDow ==
    /\ ConvIdle
    /\ phase = "input"
    /\ arg \in [day_name : DayNameTexts, prefix : PrefixTexts, today : Todays]
    /\ res = Null

\* one call of get_date_for_day_of_week
DayOfWeek ==
    /\ phase = "input"
    /\ phase' = "output"
    /\ res' = <<get_date_for_day_of_week(arg.day_name, arg.prefix, arg.today)>>
    /\ UNCHANGED <<arg, convVars>>

NextDow == DayOfWeek

SpecDow == InitDow /\ [][NextDow]_vars

\* a markdown file of the vault
File(basename, content, readable) ==
    [basename |-> basename, content |-> content, readable |-> readable]

\* a vault with daily notes in two naming conventions
DailyVault ==
    << File(<<"2","0","2","4","-","0","2","-","2","5">>, <<"s","u","n">>, TRUE),
       File(<<"2","0","2","4","-","0","2","-","2","6">>, <<"m","o","n">>, TRUE), File(<<"2","0","2","4","-","0","2","-","2","8">>, <<"w","e","d">>, TRUE),
       File(<<"2","0","2","4","-","0","2","-","2","9">>, <<"t","h","u">>, TRUE), File(<<"0","3","-","0","1","-","2","0","2","4">>, <<"f","r","i">>, TRUE),
       File(<<"2","0","2","4","-","0","3","-","0","2">>, <<"s","a","t">>, FALSE), File(<<"2","0","2","5","-","0","1","-","0","5">>, <<"j","a","n">>, TRUE) >>

Corpora == { <<>>, DailyVault }

QueryHeads ==
    { <<>>, <<"w","h","a","t"," ","h","a","p","p","e","n","e","d">>, <<"w","h","a","t"," ","h","a","p","p","e","n","e","d"," ">>, <<"w","h","a","t"," ","h","a","p","p","e","n","e","d"," ","o","n"," ">>, <<"t","e","l","l"," ","m","e"," ","a","b","o","u","t"," ">>, <<"W","h","a","t"," ","d","i","d"," ","I"," ","d","o"," ">>, <<"s","e","e"," ">> }

QueryDates ==
    { <<>>, <<"y","e","s","t","e","r","d","a","y">>, <<"t","o","d","a","y">>, <<"2","0","2","4","-","0","2","-","2","9">>, <<"2","0","2","4","-","1","3","-","0","5">>, <<"2","/","3","0","/","2","0","2","4">>, <<"1","3","/","5","/","2","0","2","4">>, <<"1","/","5">>, <<"3","-","1","-","2","4">> }

QueryTails ==
    { <<>>, <<" ","m","o","n","d","a","y">>, <<" ","l","a","s","t"," ","M","o","n","d","a","y">>, <<" ","t","h","i","s"," ","f","r","i","d","a","y">>, <<" ","o","n"," "," ","s","u","n","d","a","y">>, <<" ","a","n","d"," ","w","h","a","t"," ","h","a","p","p","e","n","e","d"," ","t","o","d","a","y">> }

\* the utterances handed to the resolver
Queries == { h \o d \o t : h \in QueryHeads, d \in QueryDates, t \in QueryTails }

InitTime ==
    /\ ConvIdle
    /\ phase = "input"
    /\ arg \in [query : Queries, today : Todays, west : BOOLEAN, files : Corpora]
    /\ res = Null

\* one call of check_time_related_query
CheckTimeQuery ==
    /\ phase = "input"
    /\ phase' = "output"
    /\ res' = [date |-> target_date(arg.query, arg.today, arg.west),
               files |-> check_time_related_query(arg.query, arg.today, arg.west, arg.files)]
    /\ UNCHANGED <<arg, convVars>>

NextTime == CheckTimeQuery

SpecTime == InitTime /\ [][NextTime]_vars

\* a vault with notes and daily notes
NotesVault ==
    << File(<<"D","a","i","l","y"," ","L","o","g">>, <<"l","o","g">>, TRUE), File(<<"P","l","a","n">>, <<"p","1">>, TRUE),
       File(<<"P","r","o","j","e","c","t"," ","N","o","t","e","s">>, <<"p","n">>, TRUE), File(<<"2","0","2","4","-","0","2","-","2","8">>, <<"w","e","d">>, TRUE),
       File(<<"2","0","2","4","-","0","2","-","2","9">>, <<"t","h","u">>, TRUE), File(<<"B","r","o","k","e","n">>, <<"b">>, FALSE), File(<<"E","m","p","t","y">>, <<>>, TRUE) >>

MessageCorpora == { <<>>, NotesVault }

\* what the user types into the input field
MessageTexts ==
    { <<"@",Backtick,"D","a","i","l","y"," ","L","o","g",Backtick," ","w","h","a","t"," ","h","a","p","p","e","n","e","d"," ","y","e","s","t","e","r","d","a","y">>,
      <<"w","h","a","t"," ","h","a","p","p","e","n","e","d"," ","y","e","s","t","e","r","d","a","y">>,
      <<"@","P","l","a","n"," ","t","e","l","l"," ","m","e"," ","a","b","o","u","t"," ","2","0","2","4","-","0","2","-","2","9">>,
      <<"@","2","0","2","4","-","0","2","-","2","8"," ","w","h","a","t"," ","h","a","p","p","e","n","e","d"," ","y","e","s","t","e","r","d","a","y">>,
      <<"s","e","e"," ","@","p","l","a","n",","," ","a","n","d"," ","@","P","l","a","n">>,
      <<"@","P","r","o","j","e","c","t"," ","h","i">>,
      <<"@","N","o","t","h","i","n","g"," ","h","e","r","e">>,
      <<"@","B","r","o","k","e","n",","," ","@","N","o","t","h","i","n","g"," ","a","n","d"," ","@","P","l","a","n">>,
      <<"h","i">>,
      <<"@",Backtick,"D","a","i","l","y"," ","L","o","g",Backtick," ","@","B","r","o","k","e","n","!">>,
      <<"c","o","m","p","a","r","e"," ","@","P","l","a","n"," ","w","i","t","h"," ","@",Backtick," ","P","r","o","j","e","c","t"," ","N","o","t","e","s"," ",Backtick," ","a","b","o","u","t"," ","p","l","a","n","n","i","n","g"," ","P","l","a","n","n","i","n","g">> }

MessageTodays == { DaysFromCivil(2024, 2, 29), DaysFromCivil(2024, 3, 1) }

InitMessage ==
    /\ ConvIdle
    /\ phase = "input"
    /\ \E c \in MessageCorpora :
        arg \in [userInput : MessageTexts, today : MessageTodays, west : BOOLEAN, files : {c},
                 includeCurrentFile : BOOLEAN, currentFile : 0..Len(c), hasHistory : BOOLEAN]
    /\ res = Null

\* one call of prepareMessage
PrepareMessage ==
    /\ phase = "input"
    /\ phase' = "output"
    /\ res' = prepareMessage(arg.userInput, arg.today, arg.west, arg.files,
                             arg.includeCurrentFile, arg.currentFile, arg.hasHistory)
    /\ UNCHANGED <<arg, convVars>>

NextMessage == PrepareMessage

SpecMessage == InitMessage /\ [][NextMessage]_vars

(***************************************************************************)
(* C1: when the model call of a send fails, the user turn of that send is  *)
(* not committed: it is absent from the persisted chat_history after the   *)
(* failure and after every later save.                                     *)
(***************************************************************************)
C1_FailedTurnNeverPersisted ==
    \A s \in SendIds :
        sends[s].pc = "failed" =>
            \A i \in DOMAIN store.chat_history :
                ~(store.chat_history[i].sid = s /\ store.chat_history[i].role = "user")

(***************************************************************************)
(* C2: in the list of documents prepareMessage resolves, every explicitly  *)
(* mentioned document precedes the temporally located daily note.          *)
(***************************************************************************)
C2_ExplicitBeforeTemporal ==
    phase = "output" =>
        \A i, j \in 1..Len(res.includedFiles) :
            (res.includedFiles[i].kind = "explicit" /\ res.includedFiles[j].kind = "temporal") => i < j

(***************************************************************************)
(* C3: at most one send (message resolution plus model call) is in flight  *)
(* per conversation at any time.                                           *)
(***************************************************************************)
C3_AtMostOneSendInFlight == \A v \in Views : Cardinality(PendingSends(v)) <= 1

(***************************************************************************)
(* C4: across every step that is not an explicit reset, the turns before   *)
(* the step are a prefix of the turns after it.                            *)
(***************************************************************************)
C4_TurnsGrowOnlyByAppend == [][ ~ResetStep => IsPrefix(Turns, Turns') ]_vars

(***************************************************************************)
(* C5: an explicit reset clears turns and awaiting_response, and no turn   *)
(* of the conversation before the reset (sent before it, or the reply to a *)
(* send started before it) is in turns at any later time.                  *)
(***************************************************************************)
NoTurnFromBeforeReset ==
    \A v \in Views : \A i \in DOMAIN view[v].chatHistory :
        EpochOf(view[v].chatHistory[i].sid) >= view[v].epoch

C5_ResetDropsEarlierTurns ==
    [][ /\ ResetAssignStep => (view'[Cur].chatHistory = <<>> /\ ~view'[Cur].awaiting_user_response)
        /\ NoTurnFromBeforeReset' ]_vars

(***************************************************************************)
(* C6: once non-empty, conversation_id changes only in an explicit reset.  *)
(***************************************************************************)
C6_ConversationIdStable == [][ (~ResetStep /\ ConvId # 0) => ConvId' = ConvId ]_vars

(***************************************************************************)
(* C7: the resolver attempts exactly one category, the first in the order  *)
(* yesterday, today, explicit date literal, day-of-week whose pattern      *)
(* matches, and the resolved date is the date of that category.            *)
(***************************************************************************)
\* the categories whose pattern matches the utterance
MatchingCategories(q) ==
    { c \in 1..4 : \/ c = 1 /\ yesterday_pattern(q)
                   \/ c = 2 /\ today_pattern(q)
                   \/ c = 3 /\ specific_date_match(q) # Null
                   \/ c = 4 /\ day_of_week_match(q) # Null }

\* the date category c resolves the utterance to
CategoryDate(c, q, today, west) ==
    CASE c = 1 -> << today - 1 >>
      [] c = 2 -> << today >>
      [] c = 3 -> parse_date_string(specific_date_match(q)[1], west)
      [] c = 4 -> LET m == day_of_week_match(q)[1]
                  IN  << get_date_for_day_of_week(m.match2,
                            IF m.match1 = Undefined THEN Undefined ELSE toLowerCase(trim(m.match1)),
                            today) >>

C7_HighestPriorityCategoryWins ==
    phase = "output" =>
        LET M == MatchingCategories(arg.query)
        IN  IF M = {} THEN res.date = Null
            ELSE res.date = CategoryDate(CHOOSE c \in M : \A k \in M : c <= k,
                                         arg.query, arg.today, arg.west)

\* an utterance that matches the yesterday and the today patterns is resolved
\* to yesterday
C7_Witness_SeveralCategories ==
    /\ phase = "output"
    /\ {1, 2} \subseteq MatchingCategories(arg.query)
    /\ res.date = << arg.today - 1 >>

(***************************************************************************)
(* C8: when the explicit-date pattern is the category attempted and its    *)
(* literal does not parse, the resolver yields no date and attaches no     *)
(* note, also when the utterance names a weekday.                          *)
(***************************************************************************)
C8_ParseFailureYieldsNothing ==
    ( /\ phase = "output"
      /\ ~yesterday_pattern(arg.query) /\ ~today_pattern(arg.query)
      /\ specific_date_match(arg.query) # Null
      /\ parse_date_string(specific_date_match(arg.query)[1], arg.west) = Null )
    => (res.date = Null /\ res.files = <<>>)

\* 'what happened on 2024-13-05 last Monday' in a vault that holds the note of
\* that Monday
C8_Witness_WeekdayNotTried ==
    /\ phase = "output"
    /\ specific_date_match(arg.query) = << <<"2","0","2","4","-","1","3","-","0","5">> >>
    /\ day_of_week_match(arg.query) # Null
    /\ find_daily_note(get_date_for_day_of_week(<<"m","o","n","d","a","y">>, <<"l","a","s","t">>, arg.today), arg.files) # Null
    /\ res.date = Null /\ res.files = <<>>

(***************************************************************************)
(* C9: parse_date_string yields no date for a literal that is in one of    *)
(* the accepted forms but names no calendar date (a month outside 1..12,   *)
(* or a day outside the month's length).                                   *)
(***************************************************************************)
InAcceptedForm(s) ==
    IsIsoDateText(s) \/ IsNumericDateText(s, "/") \/ IsNumericDateText(s, "-")

\* the year, month and day a literal in an accepted form names
LiteralFields(s) ==
    IF IsIsoDateText(s)
    THEN [y |-> parseInt(SubSeq(s, 1, 4)), m |-> parseInt(SubSeq(s, 6, 7)), d |-> parseInt(SubSeq(s, 9, 10))]
    ELSE LET parts == split(s, IF "/" \in Range(s) THEN "/" ELSE "-")
         IN  [y |-> IF Len(parts[3]) = 2 THEN 2000 + parseInt(parts[3]) ELSE parseInt(parts[3]),
              m |-> parseInt(parts[1]), d |-> parseInt(parts[2])]

IsLeapYear(y) == (y % 4 = 0 /\ y % 100 # 0) \/ y % 400 = 0

DaysInMonth(y, m) ==
    IF m = 2 THEN (IF IsLeapYear(y) THEN 29 ELSE 28)
    ELSE IF m \in {4, 6, 9, 11} THEN 30 ELSE 31

IsCalendarDate(s) ==
    LET f == LiteralFields(s)
    IN  f.m \in 1..12 /\ f.d >= 1 /\ f.d <= DaysInMonth(f.y, f.m)

C9_InvalidLiteralYieldsNoDate ==
    (phase = "output" /\ InAcceptedForm(arg.str) /\ ~IsCalendarDate(arg.str)) => res = Null

(***************************************************************************)
(* C10: for a named weekday, get_date_for_day_of_week returns today + d    *)
(* with 0 <= d <= 6 under the prefix 'this' and -7 <= d <= -1 under        *)
(* 'last', 'on' or no prefix, and the returned date falls on that weekday. *)
(***************************************************************************)
C10_DayOfWeekRange ==
    (phase = "output" /\ toLowerCase(arg.day_name) \in Range(days)) =>
        LET d == res[1] - arg.today
        IN  /\ arg.prefix = <<"t","h","i","s">> => (d >= 0 /\ d <= 6)
            /\ arg.prefix \in { <<"l","a","s","t">>, <<"o","n">>, Undefined } => (d >= -7 /\ d <= -1)
            /\ days[getDay(res[1]) + 1] = toLowerCase(arg.day_name)

\* 'this monday' asked on a Wednesday is five days ahead
C10_Witness_This ==
    /\ phase = "output"
    /\ arg.prefix = <<"t","h","i","s">> /\ arg.day_name = <<"m","o","n","d","a","y">> /\ getDay(arg.today) = 3
    /\ res = <<arg.today + 5>>

(***************************************************************************)
(* C11: the prefix of a weekday name.                                      *)
(***************************************************************************)
\* where a weekday name stands in q
WeekdayNamePositions(q) == { f \in AllPositions(q) : \E d \in Range(days) : LitAt(q, d, f) }

\* where a weekday name stands directly after the word "this" and white space
WeekdayAfterThis(q) ==
    WeekdayNamePositions(q) \cap AfterSpaces(q, AfterAny(q, { <<"t","h","i","s">> }, AllPositions(q)))

\* the weekday name that stands at f
WeekdayNameAt(q, f) == CHOOSE d \in Range(days) : LitAt(q, d, f)

\* the utterances of C11: the day-of-week category decides, and the one
\* weekday name of the utterance directly follows "this"
ThisWeekdayQuery(q) ==
    /\ ~yesterday_pattern(q) /\ ~today_pattern(q) /\ specific_date_match(q) = Null
    /\ Cardinality(WeekdayNamePositions(q)) = 1
    /\ WeekdayAfterThis(q) # {}

\* C11: a weekday name directly preceded by "this" is resolved with the
\* "this" rule (the coming occurrence, today included), also after a trigger
\* phrase; never with the "last" rule
C11_ThisPrefixUsesThisRule ==
    (phase = "output" /\ ThisWeekdayQuery(arg.query)) =>
        res.date = << get_date_for_day_of_week(
                          WeekdayNameAt(arg.query, CHOOSE f \in WeekdayAfterThis(arg.query) : TRUE),
                          <<"t","h","i","s">>, arg.today) >>

(***************************************************************************)
(* The note locator on its own: one call of find_daily_note.               *)
(***************************************************************************)
\* the dates looked up
LocateDates == { DaysFromCivil(2024, 2, 29), DaysFromCivil(2024, 3, 1), DaysFromCivil(2024, 1, 5) }

\* the documents a vault is made of: the four naming conventions in several
\* letter cases, a second document of the same name, a name that merely
\* contains the date, and a document that cannot be read
LocateFiles ==
    { File(<<"2","0","2","4","-","0","2","-","2","9">>, <<"a">>, TRUE), File(<<"2","0","2","4","-","0","2","-","2","9">>, <<"b">>, TRUE), File(<<"2","0","2","4","-","0","2","-","2","9">>, <<"c">>, FALSE),
      File(<<"0","2","-","2","9","-","2","0","2","4">>, <<"d">>, TRUE), File(<<"d","a","i","l","y","/","2","0","2","4","-","0","2","-","2","9">>, <<"e">>, TRUE), File(<<"D","a","i","l","y","/","2","0","2","4","-","0","2","-","2","9">>, <<"f">>, TRUE),
      File(<<"J","O","U","R","N","A","L","/","2","0","2","4","-","0","2","-","2","9">>, <<"g">>, TRUE), File(<<"n","o","t","e","s"," ","2","0","2","4","-","0","2","-","2","9">>, <<"h">>, TRUE), File(<<"2","0","2","4","-","0","3","-","0","1">>, <<"i">>, TRUE) }

\* the longest vault looked into
MaxFiles == 3

\* the file f as the vault lists it in a folder ("" for the root): its path
\* is the folder, the basename and the extension
FileAt(folder, f) ==
    [basename |-> f.basename, content |-> f.content, readable |-> f.readable,
     path |-> folder \o f.basename \o <<".","m","d">>]

\* the documents of LocateFiles at the root of the vault, a note of the date
\* in a folder of daily notes, a note named after the weekday and one whose
\* name holds the day and the month only
LocateDocuments ==
    { FileAt(<<>>, f) : f \in LocateFiles }
        \cup { FileAt(<<"d","a","i","l","i","e","s","/">>, File(<<"2","0","2","4","-","0","2","-","2","9">>, <<"j">>, TRUE)), FileAt(<<>>, File(<<"T","h","u","r","s","d","a","y">>, <<"k">>, TRUE)), FileAt(<<>>, File(<<"2","9","-","0","2"," ","p","l","a","n">>, <<"l">>, TRUE)) }

\* getMarkdownFiles(): the documents of the vault in its iteration order
LocateCorpora == UNION { [1..n -> LocateDocuments] : n \in 0..MaxFiles }

\* the UTC calendar day of a Date minus its local calendar day
UtcShifts == { -1, 0, 1 }

InitLocate ==
    /\ ConvIdle
    /\ phase = "input"
    /\ arg \in [date : LocateDates, shift : UtcShifts, files : LocateCorpora]
    /\ res = Null

\* one call of find_daily_note
FindDailyNote ==
    /\ phase = "input"
    /\ phase' = "output"
    /\ res' = find_daily_note(arg.date, arg.files)
    /\ UNCHANGED <<arg, convVars>>

\* one call of the earlier find_daily_note
FindDailyNotePart000 ==
    /\ phase = "input"
    /\ phase' = "output"
    /\ res' = find_daily_note_part_000(arg.date, arg.date + arg.shift, arg.files)
    /\ UNCHANGED <<arg, convVars>>

NextLocate == FindDailyNote \/ FindDailyNotePart000

SpecLocate == InitLocate /\ [][NextLocate]_vars

(***************************************************************************)
(* C12: the first candidate name that has a document.                      *)
(***************************************************************************)
\* k written with two and with four decimal digits
TwoDigits(k) == << DigitChars[((k \div 10) % 10) + 1], DigitChars[(k % 10) + 1] >>

FourDigits(k) == TwoDigits(k \div 100) \o TwoDigits(k % 100)

\* YYYY-MM-DD and MM-DD-YYYY of day number n
IsoName(n) ==
    FourDigits(CivilFromDays(n).year) \o <<"-">> \o TwoDigits(CivilFromDays(n).month) \o <<"-">> \o TwoDigits(CivilFromDays(n).date)

MonthFirstName(n) ==
    TwoDigits(CivilFromDays(n).month) \o <<"-">> \o TwoDigits(CivilFromDays(n).date) \o <<"-">> \o FourDigits(CivilFromDays(n).year)

\* the candidate basenames of a date, in their order of precedence
CandidateNames(n) == << IsoName(n), MonthFirstName(n), <<"d","a","i","l","y","/">> \o IsoName(n), <<"j","o","u","r","n","a","l","/">> \o IsoName(n) >>

\* the documents of files whose basename is name up to letter case
DocumentsNamed(files, name) ==
    { i \in 1..Len(files) : toLowerCase(files[i].basename) = toLowerCase(name) }

\* the candidates of date n that have a document in files
MatchingCandidates(n, files) ==
    { k \in 1..4 : DocumentsNamed(files, CandidateNames(n)[k]) # {} }

\* the Document find_daily_note returns for the file number i
DocumentOf(files, i) == [name |-> files[i].basename, content |-> files[i].content]

\* C12: for every date and corpus find_daily_note returns a document of the
\* corpus or null, null when no candidate basename has a document, and
\* otherwise a document of the first candidate that has one
C12_FirstMatchingCandidate ==
    phase = "output" =>
        LET K == MatchingCandidates(arg.date, arg.files)
        IN  /\ res # Null => \E i \in 1..Len(arg.files) : res = << DocumentOf(arg.files, i) >>
            /\ K = {} => res = Null
            /\ K # {} =>
                   \E i \in DocumentsNamed(arg.files, CandidateNames(arg.date)[Min(K)]) :
                       res = << DocumentOf(arg.files, i) >>

(***************************************************************************)
(* The two exact lookups side by side: the index of find_daily_note and    *)
(* the find of prepareMessage, for one name in one vault.                  *)
(***************************************************************************)
\* the names looked up
LookupNames == { <<"p","l","a","n">>, <<"P","l","a","n">>, <<"P","L","A","N">>, <<"2","0","2","4","-","0","2","-","2","9">>, <<"n","o","n","e">> }

\* documents whose basenames are equal, or equal up to letter case
LookupFiles ==
    { File(<<"P","l","a","n">>, <<"a">>, TRUE), File(<<"p","l","a","n">>, <<"b">>, TRUE), File(<<"P","L","A","N">>, <<"c">>, TRUE),
      File(<<"2","0","2","4","-","0","2","-","2","9">>, <<"d">>, TRUE), File(<<"2","0","2","4","-","0","2","-","2","9">>, <<"e">>, TRUE), File(<<"O","t","h","e","r">>, <<"f">>, TRUE) }

\* getMarkdownFiles(): every document of the vault once, in its iteration order
LookupCorpora ==
    UNION { { c \in [1..n -> LookupFiles] : \A i, j \in 1..n : c[i] = c[j] => i = j } : n \in 0..MaxFiles }

InitLookup ==
    /\ ConvIdle
    /\ phase = "input"
    /\ arg \in [name : LookupNames, files : LookupCorpora]
    /\ res = Null

\* the file each lookup yields for arg.name (its number in the vault, 0 for
\* none): file_map.get(name.toLowerCase()) and getMarkdownFiles().find(...)
Lookup ==
    /\ phase = "input"
    /\ phase' = "output"
    /\ res' = [locator |-> file_map_get(arg.files, toLowerCase(arg.name)),
               matcher |-> find_exact(arg.files, arg.name)]
    /\ UNCHANGED <<arg, convVars>>

NextLookup == Lookup

SpecLookup == InitLookup /\ [][NextLookup]_vars

\* C13: in one vault, the exact lookup of a name yields the same document in
\* the note locator and in the reference matcher, whatever the letter case
\* of the name
C13_SameDocumentEverywhere ==
    phase = "output" =>
        /\ res.locator = res.matcher
        /\ \A other \in LookupNames :
               toLowerCase(other) = toLowerCase(arg.name) =>
                   /\ file_map_get(arg.files, toLowerCase(other)) = res.locator
                   /\ find_exact(arg.files, other) = res.matcher

(***************************************************************************)
(* The reference extractor and stripper on their own.                      *)
(***************************************************************************)
\* the pieces the texts are made of
RefPieces ==
    { <<>>, <<"@","f","o","o">>, <<"@","f","o","o"," ">>, <<"@","f","o","o","b","a","r">>, <<"@","f","o","o","b","a","r"," ">>, <<"h","e","l","l","o">>, <<" ","h","e","l","l","o">>, <<"@",Backtick,"x",Backtick>>, <<"@",Backtick,"f","o","o",Backtick," ">>, <<"@",Backtick,"x",Backtick,Backtick,"y",Backtick>>, <<"@">>, <<"."," ">>,
      <<"@","n","o","t","e","s",".","v","2"," ","p","l","e","a","s","e">>, <<"@","b","a","r",","," ">> }

\* how many pieces a text is made of
MaxPieces == 3

\* every concatenation of MaxPieces pieces
RECURSIVE PieceTexts(_)
PieceTexts(n) ==
    IF n = 0 THEN { <<>> } ELSE { p \o t : p \in RefPieces, t \in PieceTexts(n - 1) }

RefTexts == PieceTexts(MaxPieces)

InitRefs ==
    /\ ConvIdle
    /\ phase = "input"
    /\ arg \in [text : RefTexts]
    /\ res = Null

\* one call of extractFileReferences and one of removeFileReferences
ScanReferences ==
    /\ phase = "input"
    /\ phase' = "output"
    /\ res' = [refs |-> extractFileReferences(arg.text), stripped |-> removeFileReferences(arg.text)]
    /\ UNCHANGED <<arg, convVars>>

NextRefs == ScanReferences

SpecRefs == InitRefs /\ [][NextRefs]_vars

(***************************************************************************)
(* C14: the order of the extracted tokens.                                 *)
(***************************************************************************)
\* the mentions of s in either grammar, as pairs <<start, token>>
Mentions(s) ==
    { << m[1], trim(SubSeq(s, m[1] + 2, m[2] - 2)) >> : m \in Range(backtick_matches(s, 1)) }
    \cup { << m[1], SubSeq(s, m[1] + 1, m[2] - 1) >> : m \in Range(simple_matches(s, 1)) }

\* where the token t is first mentioned in s
FirstOccurrence(s, t) == Min({ m[1] : m \in { x \in Mentions(s) : x[2] = t } })

\* C14: extractFileReferences returns no token twice, and returns the tokens
\* in the order of their first mention in the text, whichever the grammar
C14_TokensInOrderOfFirstOccurrence ==
    phase = "output" =>
        \A i, j \in 1..Len(res.refs) :
            i < j => /\ res.refs[i] # res.refs[j]
                     /\ FirstOccurrence(arg.text, res.refs[i]) < FirstOccurrence(arg.text, res.refs[j])

(***************************************************************************)
(* C15: the token of a bare mention.                                       *)
(***************************************************************************)
\* the characters that end a bare mention: white space, "@" and the backtick
EndsBareMention(c) == IsSpace(c) \/ c \in {"@", Backtick}

\* trailing sentence punctuation
IsSentencePunctuation(c) == c \in {".", ",", ";", "!", "?"}

\* where the bare mentions of s start: an "@" followed by a character that
\* belongs to the run
BareMentionStarts(s) ==
    { i \in 1..(Len(s) - 1) : s[i] = "@" /\ ~EndsBareMention(s[i + 1]) }

\* the maximal run after the "@" at i
BareRun(s, i) ==
    SubSeq(s, i + 1, Min({ e \in (i + 2)..(Len(s) + 1) : e > Len(s) \/ EndsBareMention(s[e]) }) - 1)

\* t without its trailing sentence punctuation
RECURSIVE WithoutTrailingPunctuation(_)
WithoutTrailingPunctuation(t) ==
    IF t # <<>> /\ IsSentencePunctuation(t[Len(t)])
    THEN WithoutTrailingPunctuation(SubSeq(t, 1, Len(t) - 1))
    ELSE t

\* C15: the token of a bare mention is the maximal run after "@" without
\* white space, "@" and backtick, less its trailing sentence punctuation;
\* punctuation inside the run stays
C15_BareTokenKeepsInnerPunctuation ==
    phase = "output" =>
        \A i \in BareMentionStarts(arg.text) :
            WithoutTrailingPunctuation(BareRun(arg.text, i)) # <<>> =>
                \E k \in 1..Len(res.refs) : res.refs[k] = WithoutTrailingPunctuation(BareRun(arg.text, i))

(***************************************************************************)
(* The reference matcher on its own: the body of the loop of               *)
(* prepareMessage for one token.                                           *)
(***************************************************************************)
\* the tokens resolved
ResolveTokens == { <<"p","l","a","n">>, <<"P","l","a","n">>, <<"n","o","t","e","s">>, <<"p","r","o","j","e","c","t"," ","p","l","a","n"," ","n","o","t","e","s">>, <<"z","z","z">> }

\* documents whose basenames equal a token, contain one or are contained in one
ResolveFiles ==
    { File(<<"P","l","a","n">>, <<"a">>, TRUE), File(<<"P","L","A","N">>, <<"b">>, TRUE), File(<<"P","l","a","n"," ","B">>, <<"c">>, TRUE), File(<<"P","r","o","j","e","c","t">>, <<"d">>, TRUE),
      File(<<"N","o","t","e","s">>, <<"e">>, FALSE), File(<<"M","y"," ","n","o","t","e","s">>, <<"f">>, TRUE), File(<<"O","t","h","e","r">>, <<"g">>, TRUE) }

\* getMarkdownFiles(): every document of the vault once, in its iteration order
ResolveCorpora ==
    UNION { { c \in [1..n -> ResolveFiles] : \A i, j \in 1..n : c[i] = c[j] => i = j } : n \in 0..MaxFiles }

InitResolve ==
    /\ ConvIdle
    /\ phase = "input"
    /\ arg \in [fileName : ResolveTokens, files : ResolveCorpora]
    /\ res = Null

\* one pass of the loop over fileReferences
ResolveReference ==
    /\ phase = "input"
    /\ phase' = "output"
    /\ res' = included_for_reference(arg.fileName, arg.files)
    /\ UNCHANGED <<arg, convVars>>

NextResolve == ResolveReference

SpecResolve == InitResolve /\ [][NextResolve]_vars

(***************************************************************************)
(* C16: exact before fuzzy.                                                *)
(***************************************************************************)
\* the documents whose basename is the token up to letter case
ExactMatches(files, token) ==
    { i \in 1..Len(files) : toLowerCase(files[i].basename) = toLowerCase(token) }

\* the documents whose basename contains the token or is contained in it, up
\* to letter case
FuzzyMatches(files, token) ==
    { i \in 1..Len(files) :
        \/ \E p \in 1..(Len(files[i].basename) + 1) : OccursAt(toLowerCase(files[i].basename), toLowerCase(token), p)
        \/ \E p \in 1..(Len(token) + 1) : OccursAt(toLowerCase(token), toLowerCase(files[i].basename), p) }

\* what the matcher attaches for the document number i: the document, or
\* nothing when it cannot be read
Attached(files, i) ==
    IF files[i].readable
    THEN << [name |-> files[i].basename, content |-> files[i].content, kind |-> "explicit"] >>
    ELSE <<>>

\* C16: a token resolves to a document whose basename equals it up to letter
\* case if there is one; if there is none, to the first document in vault
\* order whose basename contains it or is contained in it; otherwise to nothing
C16_ExactBeforeFuzzy ==
    phase = "output" =>
        LET E == ExactMatches(arg.files, arg.fileName)
            F == FuzzyMatches(arg.files, arg.fileName)
        IN  IF E # {} THEN \E i \in E : res = Attached(arg.files, i)
            ELSE IF F # {} THEN res = Attached(arg.files, Min(F))
            ELSE res = <<>>

\* an exact match stands after a fuzzy match in the vault and is attached
C16_Witness_ExactAfterFuzzy ==
    /\ phase = "output"
    /\ arg.fileName = <<"p","l","a","n">>
    /\ Len(arg.files) = 2
    /\ arg.files[1] = File(<<"P","l","a","n"," ","B">>, <<"c">>, TRUE)
    /\ arg.files[2] = File(<<"P","l","a","n">>, <<"a">>, TRUE)
    /\ res = << [name |-> <<"P","l","a","n">>, content |-> <<"a">>, kind |-> "explicit"] >>

(***************************************************************************)
(* C17: a token that is a prefix of another.                               *)
(***************************************************************************)
\* the bare mentions of s as spans <<start, end>> (end exclusive)
BareSpans(s) == Range(simple_matches(s, 1))

\* the tokens of the bare mentions of s
BareTokens(s) == { SubSeq(s, m[1] + 1, m[2] - 1) : m \in BareSpans(s) }

\* whether a is a proper prefix of b
IsProperPrefix(a, b) == Len(a) < Len(b) /\ SubSeq(b, 1, Len(a)) = a

\* whether every bare mention of s ends at a token boundary: white space,
\* the end of the text or sentence punctuation
AtTokenBoundaries(s) ==
    \A m \in BareSpans(s) : m[2] > Len(s) \/ IsSpace(s[m[2]]) \/ IsSentencePunctuation(s[m[2]])

\* s without its mentions, white space normalised
WithoutMentions(s) ==
    LET gone(i) == \E m \in BareSpans(s) \cup Range(backtick_matches(s, 1)) : m[1] <= i /\ i < m[2]
        kept == { i \in 1..Len(s) : ~gone(i) }
        order == Ascending(kept)
    IN  trim(CollapseSpaces([k \in 1..Len(order) |-> s[order[k]]]))

\* the texts of C17: two bare mentions, one token a proper prefix of the
\* other, every bare mention at a token boundary
PrefixedMentions(s) ==
    /\ \E a, b \in BareTokens(s) : IsProperPrefix(a, b)
    /\ AtTokenBoundaries(s)

\* C17: when one bare token is a proper prefix of another, every mention is
\* removed whole and nothing of the longer token is left behind
C17_PrefixTokensRemovedWhole ==
    (phase = "output" /\ PrefixedMentions(arg.text)) => res.stripped = WithoutMentions(arg.text)

(***************************************************************************)
(* C18: stripping twice.                                                   *)
(***************************************************************************)
\* C18: the stripped text is a fixed point of removeFileReferences
C18_StrippingIsIdempotent ==
    phase = "output" => removeFileReferences(res.stripped) = res.stripped

(***************************************************************************)
(* C19: the display text.                                                  *)
(***************************************************************************)
\* C19: the display text prepareMessage returns is the raw input with its
\* mentions stripped, whether or not a document was resolved
C19_DisplayTextIsStripped ==
    phase = "output" => res.displayText.text = removeFileReferences(arg.userInput)

(***************************************************************************)
(* C20: the current document.                                              *)
(***************************************************************************)
\* the documents resolved before the current document is considered
ResolvedBeforeCurrent == SelectSeq(res.includedFiles, LAMBDA f : f.kind # "current")

\* the cases of C20: the flag is set, there is a current document, it can be
\* read, and no document of that name is resolved already
CurrentDocumentDue ==
    /\ arg.includeCurrentFile
    /\ arg.currentFile # 0
    /\ arg.files[arg.currentFile].readable
    /\ \A k \in 1..Len(ResolvedBeforeCurrent) :
           ResolvedBeforeCurrent[k].name # arg.files[arg.currentFile].basename

\* C20: when the current document is due, it is the last resolved document,
\* whatever its content
C20_CurrentDocumentAppendedLast ==
    (phase = "output" /\ CurrentDocumentDue) =>
        /\ res.includedFiles # <<>>
        /\ res.includedFiles[Len(res.includedFiles)].name = arg.files[arg.currentFile].basename
        /\ res.includedFiles[Len(res.includedFiles)].content = arg.files[arg.currentFile].content
        /\ res.includedFiles[Len(res.includedFiles)].kind = "current"

(***************************************************************************)
(* C21: no document name twice.                                            *)
(***************************************************************************)
\* C21: the resolved document list of one message holds no document name
\* twice, however its documents were resolved
C21_NoDocumentNameTwice ==
    phase = "output" =>
        \A i, j \in 1..Len(res.includedFiles) :
            res.includedFiles[i].name = res.includedFiles[j].name => i = j

(***************************************************************************)
(* C22: partial success.                                                   *)
(***************************************************************************)
\* the document a token resolves to (its number in the vault), 0 for none
ResolvedDocument(files, token) ==
    IF ExactMatches(files, token) # {} THEN Min(ExactMatches(files, token))
    ELSE IF FuzzyMatches(files, token) # {} THEN Min(FuzzyMatches(files, token))
    ELSE 0

\* the tokens of the input that resolve to a document that can be read
ReadableTokens(text, files) ==
    { t \in Range(extractFileReferences(text)) :
        ResolvedDocument(files, t) # 0 /\ files[ResolvedDocument(files, t)].readable }

\* the tokens of the input that resolve to nothing or to a document that
\* cannot be read
FailingTokens(text, files) == Range(extractFileReferences(text)) \ ReadableTokens(text, files)

\* C22: prepareMessage returns a message whatever becomes of the tokens, and
\* the document of every token that resolves and reads is in the resolved list
C22_PartialSuccess ==
    phase = "output" =>
        /\ res.apiText # <<>>
        /\ \A t \in ReadableTokens(arg.userInput, arg.files) :
               \E k \in 1..Len(res.includedFiles) :
                   /\ res.includedFiles[k].name = arg.files[ResolvedDocument(arg.files, t)].basename
                   /\ res.includedFiles[k].content = arg.files[ResolvedDocument(arg.files, t)].content

\* a token that cannot be read and a token that resolves to nothing stand
\* before a token whose document is attached
C22_Witness_FailuresThenSuccess ==
    /\ phase = "output"
    /\ arg.files # <<>>
    /\ extractFileReferences(arg.userInput) = << <<"B","r","o","k","e","n">>, <<"N","o","t","h","i","n","g">>, <<"P","l","a","n">> >>
    /\ FailingTokens(arg.userInput, arg.files) = { <<"B","r","o","k","e","n">>, <<"N","o","t","h","i","n","g">> }
    /\ \E k \in 1..Len(res.includedFiles) : res.includedFiles[k].name = <<"P","l","a","n">>

(***************************************************************************)
(* The context tracker on its own: one call of                             *)
(* analyze_conversation_context.                                           *)
(***************************************************************************)
\* the phrases the messages are made of
ContextPhrases ==
    { <<"m","a","c","h","i","n","e">>, <<"l","e","a","r","n","i","n","g">>, <<"h","e","l","p","s">>, <<"M","a","c","h","i","n","e","!">>, <<"2","0","2","4">>, <<"1","9","9","9">>, <<"w","h","a","t">>, <<"c","a","t">>, <<"a","l","p","h","a"," ","b","e","t","a"," ","g","a","m","m","a"," ","d","e","l","t","a"," ","o","m","e","g","a">>,
      <<"c","o","n","s","t","r","u","c","t","o","r">>, <<"_","_","p","r","o","t","o","_","_">>,
      <<"l","e","a","r","n","i","n","g"," ","l","e","a","r","n","i","n","g">> }

\* how many phrases a message is made of at most
MaxPhrases == 3

\* the messages of n phrases, separated by one space
RECURSIVE PhraseTexts(_)
PhraseTexts(n) ==
    IF n = 1 THEN ContextPhrases
    ELSE { p \o <<" ">> \o t : p \in ContextPhrases, t \in PhraseTexts(n - 1) }

ContextTexts == UNION { PhraseTexts(n) : n \in 1..MaxPhrases }

InitContext ==
    /\ ConvIdle
    /\ phase = "input"
    /\ arg \in [message : ContextTexts]
    /\ res = Null

\* one call of analyze_conversation_context; res is conversation_context
AnalyzeContext ==
    /\ phase = "input"
    /\ phase' = "output"
    /\ res' = [conversation_context |-> analyze_conversation_context(arg.message)]
    /\ UNCHANGED <<arg, convVars>>

NextContext == AnalyzeContext

SpecContext == InitContext /\ [][NextContext]_vars

(***************************************************************************)
(* C23: the keyword summary.                                               *)
(***************************************************************************)
\* the tokens of a turn: lower case, word characters and white space only,
\* split on white space, longer than three characters, no stop word
KeywordTokens(text) ==
    SelectSeq(SplitWords(SelectSeq(toLowerCase(text), LAMBDA c : IsWordChar(c) \/ IsSpace(c))),
              LAMBDA w : Len(w) > 3 /\ w \notin StopWords)

\* the positions of tokens at which a token occurs for the first time
FirstPositions(tokens) ==
    { i \in 1..Len(tokens) : \A j \in 1..(i - 1) : tokens[j] # tokens[i] }

\* how often the token at i occurs
Frequency(tokens, i) == Cardinality({ j \in 1..Len(tokens) : tokens[j] = tokens[i] })

\* whether the token first seen at i ranks before the token first seen at j
RanksBefore(tokens, i, j) ==
    \/ Frequency(tokens, i) > Frequency(tokens, j)
    \/ Frequency(tokens, i) = Frequency(tokens, j) /\ i < j

\* the keywords in rank order, from those first seen at the positions of P
RECURSIVE Ranked(_, _)
Ranked(tokens, P) ==
    IF P = {} THEN <<>>
    ELSE LET i == CHOOSE x \in P : \A y \in P \ {x} : RanksBefore(tokens, x, y)
         IN  << tokens[i] >> \o Ranked(tokens, P \ {i})

\* the reference summary: the first five keywords in rank order, joined
KeywordReference(text) ==
    LET ranked == Ranked(KeywordTokens(text), FirstPositions(KeywordTokens(text)))
    IN  join(SubSeq(ranked, 1, IF Len(ranked) > 5 THEN 5 ELSE Len(ranked)), <<",", " ">>)

\* C23: the keyword summary of a turn is the reference summary of its text
C23_KeywordSummaryIsReference ==
    phase = "output" => res.conversation_context = KeywordReference(arg.message)

(***************************************************************************)
(* The success path of sendToPerplexity on its own: one OK response of the *)
(* model, from data.choices[0].message.content to the assistant turn.      *)
(***************************************************************************)
\* the first position from which w occurs in s (0: none)
firstIndexOf(s, w) ==
    IF includes(s, w)
    THEN CHOOSE i \in 1..(Len(s) + 1) : OccursAt(s, w, i) /\ \A j \in 1..(i - 1) : ~OccursAt(s, w, j)
    ELSE 0

\* content.split(w)[1] for a content in which w occurs: what stands between
\* the first occurrence of w and the next one (or the end)
second_part(s, w) ==
    LET rest == SubSeq(s, firstIndexOf(s, w) + Len(w), Len(s))
    IN  IF includes(rest, w) THEN SubSeq(rest, 1, firstIndexOf(rest, w) - 1) ELSE rest

ThinkOpen == <<"<","t","h","i","n","k",">">>

ThinkClose == <<"<","/","t","h","i","n","k",">">>

\* the content that is stored and returned: for a reasoning model, what
\* follows the thinking part
stored_content(content, isReasoningModel) ==
    IF isReasoningModel /\ includes(content, ThinkOpen) /\ includes(content, ThinkClose)
    THEN trim(second_part(content, ThinkClose))
    ELSE content

\* the lines the model's answers are made of
ReplyLines ==
    { <<"H","e","r","e"," ","i","s"," ","t","h","e"," ","s","u","m","m","a","r","y",".">>, <<"W","h","a","t"," ","d","o"," ","y","o","u"," ","t","h","i","n","k","?">>, <<"D","o","n","e","?"," ">>, <<"S","o","m","e","w","h","a","t"," ","b","e","t","t","e","r",".">>,
      <<"C","a","n"," ","y","o","u"," ","c","h","e","c","k">>, <<"I"," ","s","c","a","n"," ","y","o","u","r"," ","n","o","t","e","s",".">>, <<"L","e","t"," ","m","e"," ","k","n","o","w">>, <<"A","n","y"," ","t","h","o","u","g","h","t","s">>,
      <<"N","o"," ","a","f","t","e","r","t","h","o","u","g","h","t","s",".">>, <<"H","O","W">>, <<"N","o","w","h","e","r","e"," ","n","e","a","r",".">>, <<"W","o","u","l","d"," ","y","o","u">> }

\* the contents of the model's answers: one line, two lines, or a thinking
\* part and a line
ReplyContents ==
    ReplyLines
    \cup { a \o <<"\n">> \o b : a, b \in ReplyLines }
    \cup { ThinkOpen \o a \o ThinkClose \o <<" ">> \o b : a, b \in ReplyLines }

InitReply ==
    /\ ConvIdle
    /\ phase = "input"
    /\ arg \in [content : ReplyContents, isReasoningModel : BOOLEAN]
    /\ res = Null

\* the response is OK: the content is taken, the question detector sets
\* awaiting_user_response, the assistant turn is pushed
StoreReply ==
    /\ phase = "input"
    /\ phase' = "output"
    /\ \E content \in { stored_content(arg.content, arg.isReasoningModel) } :
           res' = [ awaiting_user_response |-> detect_question_in_response(content),
                    turn |-> [role |-> "assistant", content |-> content] ]
    /\ UNCHANGED <<arg, convVars>>

NextReply == StoreReply

SpecReply == InitReply /\ [][NextReply]_vars

(***************************************************************************)
(* C24: awaiting_response after a successful model call.                   *)
(***************************************************************************)
\* some line of the text ends with "?", white space after it ignored
SomeLineEndsWithQuestionMark(text) ==
    \E i \in 1..Len(text) :
        /\ text[i] = "?"
        /\ \E j \in i..Len(text) :
            /\ \A k \in (i + 1)..j : text[k] \in {" ", "\t", "\r"}
            /\ (j = Len(text) \/ text[j + 1] = "\n")

\* the text contains w, letter case ignored
ContainsIgnoringCase(text, w) == \E i \in 1..Len(text) : OccursAt(toLowerCase(text), w, i)

\* the text contains w as a whole word, letter case ignored
ContainsWholeWord(text, w) ==
    \E i \in 1..Len(text) :
        /\ OccursAt(toLowerCase(text), w, i)
        /\ (i = 1 \/ ~IsWordChar(text[i - 1]))
        /\ (i + Len(w) > Len(text) \/ ~IsWordChar(text[i + Len(w)]))

\* the criteria of the question detector, as stated
AsksForAnswer(text) ==
    \/ SomeLineEndsWithQuestionMark(text)
    \/ \E w \in { <<"w","h","a","t">>, <<"h","o","w">>, <<"w","h","y">>, <<"w","h","e","n">>, <<"w","h","e","r","e">>, <<"w","h","i","c","h">> } : ContainsWholeWord(text, w)
    \/ \E p \in { <<"c","a","n"," ","y","o","u">>, <<"c","o","u","l","d"," ","y","o","u">>, <<"w","o","u","l","d"," ","y","o","u">> } : ContainsIgnoringCase(text, p)
    \/ ContainsIgnoringCase(text, <<"l","e","t"," ","m","e"," ","k","n","o","w">>)
    \/ ContainsIgnoringCase(text, <<"t","h","o","u","g","h","t","s">>)

\* C24: after a successful model call awaiting_response is true exactly when
\* the stored reply meets one of the stated criteria
C24_AwaitingIffReplyAsks ==
    phase = "output" => (res.awaiting_user_response <=> AsksForAnswer(res.turn.content))

(***************************************************************************)
(* C25: what load_chat_history leaves in the view.                         *)
(***************************************************************************)
\* the step in which the load_chat_history of operation o resolves
LoadStep(o) == ops[o].pc = "open_load" /\ ops'[o].pc = "unused"

\* conversation_id and awaiting_user_response after loading the record data:
\* the record's values, a fresh id for a missing one, false for a missing flag
LoadedAsRecorded(v, data) ==
    /\ view'[v].conversation_id # 0
    /\ view'[v].conversation_id = IF data.conversation_id # 0 THEN data.conversation_id ELSE nextId
    /\ view'[v].awaiting_user_response = data.awaiting_user_response

\* C25: after load_chat_history of any persisted record, conversation_id is
\* the record's or a fresh non-empty one and awaiting_response is the record's
\* or false, also for a record without chat_history
C25_LoadDefaults ==
    [][\A o \in OpIds : LoadStep(o) => LoadedAsRecorded(ops[o].view, ops[o].data)]_vars

(***************************************************************************)
(* C26: saving the settings and the persisted conversation record.         *)
(***************************************************************************)
\* the conversation record of data.json
PersistedRecord(data) ==
    [ has_chat |-> data.has_chat, chat_history |-> data.chat_history,
      conversation_id |-> data.conversation_id,
      awaiting_user_response |-> data.awaiting_user_response ]

\* a step in which a setting is changed and saveSettings writes
SaveSettingsStep == ntoggles' # ntoggles /\ store' = saveSettings(settings')

\* C26: saveSettings leaves chat_history, conversation_id and
\* awaiting_user_response in the store as they were
C26_SaveSettingsKeepsRecord ==
    [][SaveSettingsStep => PersistedRecord(store') = PersistedRecord(store)]_vars

(***************************************************************************)
(* C27: a chat-history save and a concurrent settings change.              *)
(***************************************************************************)
\* the settings as data.json holds them
PersistedSettings ==
    [ perplexityApiKey |-> IF store.has_settings THEN store.perplexityApiKey ELSE "",
      includeCurrentFile |-> IF store.has_settings THEN store.includeCurrentFile ELSE FALSE ]

\* the settings of the plugin object
MemorySettings ==
    [ perplexityApiKey |-> settings.perplexityApiKey,
      includeCurrentFile |-> settings.includeCurrentFile ]

\* a step in which a save_chat_history calls saveData
ChatSaveStep ==
    \/ \E s \in SendIds : sends[s].pc = "save_write" /\ sends'[s].pc # "save_write"
    \/ \E o \in OpIds : ops[o].pc = "save_write" /\ ops'[o].pc # "save_write"

\* C27: a chat-history save never discards a settings change: if data.json
\* holds the settings in memory when save_chat_history writes, it holds them
\* afterwards, whatever saveSettings ran since the save loaded its data
C27_SettingsChangeSurvivesSave ==
    [][(ChatSaveStep /\ PersistedSettings = MemorySettings)
           => PersistedSettings' = MemorySettings']_vars

(***************************************************************************)
(* C28, C29: the shape of the history.                                     *)
(***************************************************************************)
\* C28: while the conversation awaits the user's response, the history is
\* not empty and ends with an assistant turn
C28_AwaitingAfterAssistantTurn ==
    Awaiting => (Turns # <<>> /\ Turns[Len(Turns)].role = "assistant")

\* the assistant turn at position i follows the user turn of its own send
AnswersTurnBefore(i) ==
    /\ i > 1
    /\ Turns[i - 1].role = "user"
    /\ Turns[i - 1].sid = Turns[i].sid

\* C29: every assistant turn comes immediately after the user turn it answers
C29_AssistantFollowsItsUserTurn ==
    \A i \in 1..Len(Turns) : Turns[i].role = "assistant" => AnswersTurnBefore(i)

(***************************************************************************)
(* C30: sendToPerplexity without an API key.                               *)
(***************************************************************************)
\* the step in which the sendToPerplexity of send s starts, no key being set
KeylessSendStep(s) ==
    /\ sends[s].pc = "prepare"
    /\ sends'[s].pc # "prepare"
    /\ settings.perplexityApiKey = ""

\* sendToPerplexity returns at once with empty content: no fetch is pending,
\* and history, conversation id and data.json are as before
ReturnsUntouched(s) ==
    /\ sends'[s].pc = "done"
    /\ sends'[s].content = <<>>
    /\ view'[sends[s].view].chatHistory = view[sends[s].view].chatHistory
    /\ view'[sends[s].view].conversation_id = view[sends[s].view].conversation_id
    /\ store' = store

\* C30: without an API key sendToPerplexity calls no model, returns empty
\* content and leaves turns, conversation_id and the persisted record alone
C30_NoKeyNoCall ==
    [][\A s \in SendIds : KeylessSendStep(s) => ReturnsUntouched(s)]_vars

\* a send has returned without a key on a view that holds an exchange: its
\* content is empty and no turn of it is in the history
C30_Witness_KeylessSendReturned ==
    \E s \in SendIds :
        /\ sends[s].pc = "done"
        /\ sends[s].content = <<>>
        /\ settings.perplexityApiKey = ""
        /\ view[sends[s].view].chatHistory # <<>>
        /\ \A i \in DOMAIN view[sends[s].view].chatHistory :
               view[sends[s].view].chatHistory[i].sid # s

====
